---- MODULE Spec2Model ----
(***************************************************************************)
(* A model of mimicode/imagemodify: the ImageModifier entry points         *)
(* (ModifyImageSHA1, ModifyImageSHA1ByPixel, ModifyImageMetadata,          *)
(* GetImageSHA1, GetImageMetadata) acting on one stored file, with the     *)
(* JPEG segment and PNG chunk walkers translated byte for byte.            *)
(*                                                                         *)
(* A byte buffer is a sequence of numbers in 0..255.  A Go slice           *)
(* data[a:b] (0-based, b exclusive) is Slice(data, a, b); data[i] is       *)
(* At(data, i).                                                            *)
(***************************************************************************)
EXTENDS Integers, Sequences, FiniteSets, TLC

VARIABLES ext, file, last, log

vars == <<ext, file, last, log>>

(***************************************************************************)
(* Bytes                                                                   *)
(***************************************************************************)
Slice(data, a, b) == SubSeq(data, a + 1, b)

At(data, i) == data[i + 1]

RECURSIVE Concat(_)
Concat(seqs) ==
    IF seqs = <<>> THEN <<>> ELSE Head(seqs) \o Concat(Tail(seqs))

Repeat(b, n) == [i \in 1..n |-> b]

XorTable ==
    [a \in 0..255 |-> [b \in 0..255 |->
        LET bit(i) == (((a \div (2 ^ i)) % 2) + ((b \div (2 ^ i)) % 2)) % 2
        IN  bit(0) + 2 * bit(1) + 4 * bit(2) + 8 * bit(3)
            + 16 * bit(4) + 32 * bit(5) + 64 * bit(6) + 128 * bit(7)]]

Xor8(a, b) == XorTable[a][b]

\* A 32-bit word is kept as its four big-endian bytes: TLC's integers are
\* 32-bit signed and cannot hold a uint32.
Xor32(u, v) == <<Xor8(u[1], v[1]), Xor8(u[2], v[2]), Xor8(u[3], v[3]), Xor8(u[4], v[4])>>

Shr1(w) ==
    << w[1] \div 2,
       (w[1] % 2) * 128 + (w[2] \div 2),
       (w[2] % 2) * 128 + (w[3] \div 2),
       (w[3] % 2) * 128 + (w[4] \div 2) >>

\* hash/crc32: the IEEE polynomial 0xEDB88320 (reflected), table driven.
IEEEPoly == <<237, 184, 131, 32>>

RECURSIVE CrcEntry(_, _)
CrcEntry(w, k) ==
    IF k = 0 THEN w
    ELSE CrcEntry(IF w[4] % 2 = 1 THEN Xor32(Shr1(w), IEEEPoly) ELSE Shr1(w), k - 1)

CrcTable == [n \in 0..255 |-> CrcEntry(<<0, 0, 0, n>>, 8)]

\* The table-driven update over data[i..j].  (Len(crc) = 4 always holds;
\* stating it has the running value computed at every step instead of once
\* at the end.)
RECURSIVE CrcBytes(_, _, _, _)
CrcBytes(crc, data, i, j) ==
    IF Len(crc) = 4 /\ i > j THEN crc
    ELSE CrcBytes(Xor32(CrcTable[Xor8(crc[4], data[i])],
                        <<0, crc[1], crc[2], crc[3]>>), data, i + 1, j)

\* crc32.Update from data[i] on, taken 64 bytes at a time so that the depth
\* of the evaluation does not grow with every byte.
RECURSIVE CrcUpdate(_, _, _)
CrcUpdate(crc, data, i) ==
    IF Len(crc) = 4 /\ i > Len(data) THEN crc
    ELSE CrcUpdate(CrcBytes(crc, data, i, IF i + 63 < Len(data) THEN i + 63 ELSE Len(data)),
                   data, i + 64)

\* crc32.ChecksumIEEE(data), as the 4 bytes binary.BigEndian.PutUint32 writes.
ChecksumIEEE(data) ==
    Xor32(CrcUpdate(<<255, 255, 255, 255>>, data, 1), <<255, 255, 255, 255>>)

\* binary.BigEndian.PutUint32 of a length (below 2^31 in every buffer here).
PutUint32(n) ==
    <<(n \div 16777216) % 256, (n \div 65536) % 256, (n \div 256) % 256, n % 256>>

\* binary.BigEndian.Uint32(data[pos:pos+4]) widened to a 64-bit int.  The
\* walkers only add 4 or 12 to it and compare the sum with len(data), so
\* every value from 2^30 up is kept as 2^30: it is past the end of every
\* buffer either way.
Uint32(data, pos) ==
    IF At(data, pos) >= 64 THEN 1073741824
    ELSE At(data, pos) * 16777216 + At(data, pos + 1) * 65536
         + At(data, pos + 2) * 256 + At(data, pos + 3)

\* crypto/sha1 is taken to be collision free: two digests are equal exactly
\* when the buffers are.
SHA1(data) == <<"sha1", data>>

(***************************************************************************)
(* ASCII                                                                   *)
(***************************************************************************)
TypeTEXT == <<116, 69, 88, 116>>
TypeZTXT == <<122, 84, 88, 116>>
TypeITXT == <<105, 84, 88, 116>>
TypeIEND == <<73, 69, 78, 68>>
TypeIHDR == <<73, 72, 68, 82>>
TypeIDAT == <<73, 68, 65, 84>>

PNGSignature == <<137, 80, 78, 71, 13, 10, 26, 10>>

ExtJpg == <<46, 106, 112, 103>>
ExtJpeg == <<46, 106, 112, 101, 103>>
ExtPng == <<46, 112, 110, 103>>

KwRandom == <<82, 97, 110, 100, 111, 109>>

\* strings.ToLower on ASCII bytes.
ToLower(s) == [i \in 1..Len(s) |-> IF s[i] >= 65 /\ s[i] <= 90 THEN s[i] + 32 ELSE s[i]]

(***************************************************************************)
(* JPEG comment insertion (random mode and metadata mode)                  *)
(***************************************************************************)
insertJPEGComment(data, comment) ==
    IF Len(data) < 4 THEN data
    ELSE
        LET insertPos == 2
            commentLength == Len(comment) + 2
            commentSegment ==
                <<255, 254, (commentLength \div 256) % 256, commentLength % 256>>
                \o comment
        IN  Slice(data, 0, insertPos) \o commentSegment
            \o Slice(data, insertPos, Len(data))

(***************************************************************************)
(* PNG chunk construction and insertion                                    *)
(***************************************************************************)
RECURSIVE findPNGIENDChunkFrom(_, _)
findPNGIENDChunkFrom(data, pos) ==
    IF ~(pos < Len(data) - 8) THEN -1
    ELSE IF pos + 4 > Len(data) THEN -1
    ELSE IF pos + 8 > Len(data) THEN -1
    ELSE IF Slice(data, pos + 4, pos + 8) = TypeIEND THEN pos
    ELSE findPNGIENDChunkFrom(data, pos + 8 + Uint32(data, pos) + 4)

findPNGIENDChunk(data) == findPNGIENDChunkFrom(data, 8)

\* createPNGTextChunk with the checksum taken over the length field as well.
createPNGTextChunkCrcFromLength(keyword, text) ==
    LET textData == keyword \o <<0>> \o text
        lengthBytes == PutUint32(Len(textData))
        chunkType == TypeTEXT
        crcBytes == ChecksumIEEE(lengthBytes \o chunkType \o textData)
    IN  lengthBytes \o chunkType \o textData \o crcBytes

createPNGTextChunk(keyword, text) ==
    LET textData == keyword \o <<0>> \o text
        lengthBytes == PutUint32(Len(textData))
        chunkType == TypeTEXT
        crcBytes == ChecksumIEEE(chunkType \o textData)
    IN  lengthBytes \o chunkType \o textData \o crcBytes

\* insertPNGTextChunk appending the chunk after the last byte.
insertPNGTextChunkAtEnd(data, keyword, text) ==
    data \o createPNGTextChunk(keyword, text)

insertPNGTextChunk(data, keyword, text) ==
    LET found == findPNGIENDChunk(data)
        iendPos == IF found = -1 THEN Len(data) ELSE found
        textData == keyword \o <<0>> \o text
        lengthBytes == PutUint32(Len(textData))
        chunkType == TypeTEXT
        crcBytes == ChecksumIEEE(chunkType \o textData)
        chunk == lengthBytes \o chunkType \o textData \o crcBytes
    IN  Slice(data, 0, iendPos) \o chunk \o Slice(data, iendPos, Len(data))

(***************************************************************************)
(* Rasters and the image codecs (Go's image/png and image/jpeg).           *)
(*                                                                         *)
(* A raster is [w, h, pix]: pix[y * w + x + 1] = <<R, G, B, A>>, the       *)
(* image.RGBA copy the pixel functions edit.  The container side of the    *)
(* codecs is modelled (signature, chunk or segment order, lengths, CRCs,   *)
(* what a decoder skips, the one layout an encoder writes); the            *)
(* compressed image data is stood for by the channel bytes themselves.     *)
(* Files of the model hold opaque pixels only.                             *)
(***************************************************************************)
NoImage == [ok |-> FALSE, w |-> 0, h |-> 0, pix |-> <<>>]

pngChunk(type, payload) ==
    PutUint32(Len(payload)) \o type \o payload \o ChecksumIEEE(type \o payload)

pngIHDR(w, h, colorType) == pngChunk(TypeIHDR, PutUint32(w) \o PutUint32(h) \o <<8, colorType, 0, 0, 0>>)

pngPixels(payload, n, bpp) ==
    [i \in 1..n |->
        << payload[(i - 1) * bpp + 1], payload[(i - 1) * bpp + 2], payload[(i - 1) * bpp + 3],
           IF bpp = 4 THEN payload[(i - 1) * bpp + 4] ELSE 255 >>]

\* stage: 0 before IHDR, 1 after IHDR, 2 after IDAT.  Every chunk's CRC is
\* verified; chunks other than IHDR, IDAT and IEND are skipped.
RECURSIVE PngDecodeFrom(_, _, _, _, _)
PngDecodeFrom(data, pos, stage, img, bpp) ==
    IF pos + 8 > Len(data) THEN NoImage
    ELSE
        LET length == Uint32(data, pos)
            type == Slice(data, pos + 4, pos + 8)
            end == pos + 12 + length
        IN  IF end > Len(data) THEN NoImage
            ELSE
                LET payload == Slice(data, pos + 8, pos + 8 + length)
                    crcOK == Slice(data, end - 4, end) = ChecksumIEEE(type \o payload)
                IN  IF type = TypeIHDR THEN
                        IF stage # 0 \/ length # 13 \/ ~crcOK THEN NoImage
                        ELSE
                            LET w == Uint32(payload, 0)
                                h == Uint32(payload, 4)
                            IN  IF w <= 0 \/ h <= 0 \/ payload[9] # 8
                                   \/ payload[10] \notin {2, 6}
                                   \/ Slice(payload, 10, 13) # <<0, 0, 0>>
                                THEN NoImage
                                ELSE PngDecodeFrom(data, end, 1,
                                        [ok |-> TRUE, w |-> w, h |-> h, pix |-> <<>>],
                                        IF payload[10] = 2 THEN 3 ELSE 4)
                    ELSE IF type = TypeIDAT THEN
                        IF stage # 1 \/ length # img.w * img.h * bpp \/ ~crcOK THEN NoImage
                        ELSE PngDecodeFrom(data, end, 2,
                                [img EXCEPT !.pix = pngPixels(payload, img.w * img.h, bpp)], bpp)
                    ELSE IF type = TypeIEND THEN
                        IF stage # 2 \/ length # 0 \/ ~crcOK THEN NoImage ELSE img
                    ELSE IF ~crcOK THEN NoImage
                    ELSE PngDecodeFrom(data, end, stage, img, bpp)

\* png.Decode
PngDecode(data) ==
    IF Len(data) < 8 \/ Slice(data, 0, 8) # PNGSignature THEN NoImage
    ELSE PngDecodeFrom(data, 8, 0, NoImage, 0)

Opaque(img) == \A i \in 1..Len(img.pix) : img.pix[i][4] = 255

RECURSIVE FlattenPixels(_, _, _)
FlattenPixels(pix, i, bpp) ==
    IF i > Len(pix) THEN <<>>
    ELSE SubSeq(pix[i], 1, bpp) \o FlattenPixels(pix, i + 1, bpp)

\* png.Encode of an *image.RGBA: 8-bit truecolour when every pixel is
\* opaque, truecolour with alpha otherwise; IHDR, one IDAT, IEND.
PngEncode(img) ==
    LET colorType == IF Opaque(img) THEN 2 ELSE 6
        bpp == IF colorType = 2 THEN 3 ELSE 4
    IN  PNGSignature \o pngIHDR(img.w, img.h, colorType)
        \o pngChunk(TypeIDAT, FlattenPixels(img.pix, 1, bpp))
        \o pngChunk(TypeIEND, <<>>)

\* A JPEG marker segment: FF, marker, 2-byte length counting itself, payload.
jpegSegment(marker, payload) ==
    <<255, marker, ((Len(payload) + 2) \div 256) % 256, (Len(payload) + 2) % 256>> \o payload

\* stage: 0 before the frame header (SOF0, C0), 1 after it.  APPn and COM
\* segments and the quantisation tables (DQT, DB) are skipped; the scan
\* (SOS, DA) carries the image data and must be followed by EOI (FF D9).
RECURSIVE JpegDecodeFrom(_, _, _, _)
JpegDecodeFrom(data, pos, stage, img) ==
    IF pos + 4 > Len(data) THEN NoImage
    ELSE IF At(data, pos) # 255 THEN NoImage
    ELSE
        LET marker == At(data, pos + 1)
            n == At(data, pos + 2) * 256 + At(data, pos + 3)
            end == pos + 2 + n
        IN  IF n < 2 \/ end > Len(data) THEN NoImage
            ELSE IF (marker >= 224 /\ marker <= 239) \/ marker = 254 \/ marker = 219
                THEN JpegDecodeFrom(data, end, stage, img)
            ELSE IF marker = 192 THEN
                IF stage # 0 \/ n # 8 \/ At(data, pos + 4) # 8 \/ At(data, pos + 9) # 3 THEN NoImage
                ELSE
                    LET h == At(data, pos + 5) * 256 + At(data, pos + 6)
                        w == At(data, pos + 7) * 256 + At(data, pos + 8)
                    IN  IF w <= 0 \/ h <= 0 THEN NoImage
                        ELSE JpegDecodeFrom(data, end, 1,
                                [ok |-> TRUE, w |-> w, h |-> h, pix |-> <<>>])
            ELSE IF marker = 218 THEN
                LET size == img.w * img.h * 3 IN
                IF stage # 1 \/ end + size + 2 > Len(data) THEN NoImage
                ELSE IF Slice(data, end + size, end + size + 2) # <<255, 217>> THEN NoImage
                ELSE [img EXCEPT !.pix = pngPixels(Slice(data, end, end + size), img.w * img.h, 3)]
            ELSE NoImage

\* jpeg.Decode
JpegDecode(data) ==
    IF Len(data) < 2 \/ Slice(data, 0, 2) # <<255, 216>> THEN NoImage
    ELSE JpegDecodeFrom(data, 2, 0, NoImage)

\* jpeg.Encode(&buf, newImg, &jpeg.Options{Quality: 95}): SOI, DQT, SOF0,
\* SOS, image data, EOI; no APPn and no COM segment.  The loss of the DCT
\* quantisation is not modelled: pixel mode on a JPEG is only looked at
\* through the bytes it returns.
JpegEncode(img) ==
    <<255, 216>>
    \o jpegSegment(219, <<0, 95>>)
    \o jpegSegment(192, <<8, (img.h \div 256) % 256, img.h % 256,
                          (img.w \div 256) % 256, img.w % 256, 3>>)
    \o jpegSegment(218, <<3>>)
    \o FlattenPixels(img.pix, 1, 3)
    \o <<255, 217>>

(***************************************************************************)
(* Pixel mode                                                              *)
(***************************************************************************)
\* clampUint8 as a bare uint8(value) conversion, which wraps.
clampUint8Wrap(value) == value % 256

clampUint8(value) ==
    IF value < 0 THEN 0
    ELSE IF value > 255 THEN 255
    ELSE value

Max0(n) == IF n < 0 THEN 0 ELSE n

getEdgePixels(width, height) ==
    [i \in 1..(2 * Max0(width)) |->
        [X |-> (i - 1) \div 2, Y |-> IF i % 2 = 1 THEN 0 ELSE height - 1]]
    \o
    [i \in 1..(2 * Max0(height - 2)) |->
        [X |-> IF i % 2 = 1 THEN 0 ELSE width - 1, Y |-> 1 + ((i - 1) \div 2)]]

\* pixelIndex := int(randomBytes[0]) % len(edgePixels)
pixelIndex(rb0, n) == rb0 % n

\* The part of modifyJPEGPixel and modifyPNGPixel between decode and
\* encode: randomBytes[0] picks the pixel, randomBytes[1] the adjustment.
adjustPixel(img, rb0, rb1) ==
    LET edgePixels == getEdgePixels(img.w, img.h)
        selectedPixel == edgePixels[pixelIndex(rb0, Len(edgePixels)) + 1]
        at == selectedPixel.Y * img.w + selectedPixel.X + 1
        origColor == img.pix[at]
        adjustment == (rb1 % 5) - 2
        newR == clampUint8(origColor[1] + adjustment)
        newG == clampUint8(origColor[2] + adjustment)
        newB == clampUint8(origColor[3] + adjustment)
    IN  [img EXCEPT !.pix[at] = <<newR, newG, newB, origColor[4]>>]

modifyPNGPixel(data, rb0, rb1) ==
    LET img == PngDecode(data)
    IN  IF ~img.ok THEN [err |-> "DecodeFailure", data |-> <<>>]
        ELSE IF Len(getEdgePixels(img.w, img.h)) = 0
            THEN [err |-> "NoEdgePixel", data |-> <<>>]
        ELSE [err |-> "", data |-> PngEncode(adjustPixel(img, rb0, rb1))]

modifyJPEGPixel(data, rb0, rb1) ==
    LET img == JpegDecode(data)
    IN  IF ~img.ok THEN [err |-> "DecodeFailure", data |-> <<>>]
        ELSE IF Len(getEdgePixels(img.w, img.h)) = 0
            THEN [err |-> "NoEdgePixel", data |-> <<>>]
        ELSE [err |-> "", data |-> JpegEncode(adjustPixel(img, rb0, rb1))]

(***************************************************************************)
(* ImageMetadata and the text forms of its fields                          *)
(*                                                                         *)
(* Strings are byte sequences; DateTime is <<>> (nil) or <<t>> with        *)
(* t = [Y, Mo, D, h, mi, s, ns, off]: the wall clock in t's own zone and   *)
(* the zone's offset in seconds east of UTC.                               *)
(***************************************************************************)
EmptyMetadata ==
    [Artist |-> <<>>, Copyright |-> <<>>, Description |-> <<>>, DateTime |-> <<>>,
     Location |-> <<>>, CameraMake |-> <<>>, CameraModel |-> <<>>, Software |-> <<>>,
     ImageWidth |-> 0, ImageHeight |-> 0]

IsDigit(b) == b >= 48 /\ b <= 57

D2(n) == <<48 + ((n \div 10) % 10), 48 + (n % 10)>>

D4(n) == <<48 + ((n \div 1000) % 10), 48 + ((n \div 100) % 10)>> \o D2(n)

AllDigits(text, a, b) == \A i \in a..(b - 1) : IsDigit(At(text, i))

RECURSIVE DigitsValue(_, _, _, _)
DigitsValue(text, a, b, acc) ==
    IF a >= b THEN acc ELSE DigitsValue(text, a + 1, b, acc * 10 + (At(text, a) - 48))

Num(text, a, b) == DigitsValue(text, a, b, 0)

RECURSIVE NatDigits(_)
NatDigits(n) == IF n < 10 THEN <<48 + n>> ELSE NatDigits(n \div 10) \o <<48 + (n % 10)>>

\* strconv.Itoa
Itoa(n) == IF n < 0 THEN <<45>> \o NatDigits(-n) ELSE NatDigits(n)

\* strconv.Atoi: an optional sign and at least one digit, nothing else.
Atoi(text) ==
    LET signed == Len(text) >= 1 /\ text[1] \in {43, 45}
        from == IF signed THEN 1 ELSE 0
    IN  IF Len(text) = from \/ Len(text) - from > 9 \/ ~AllDigits(text, from, Len(text))
        THEN [ok |-> FALSE, val |-> 0]
        ELSE [ok |-> TRUE,
              val |-> IF signed /\ text[1] = 45 THEN -Num(text, from, Len(text))
                      ELSE Num(text, from, Len(text))]

IsLeap(y) == (y % 4 = 0 /\ y % 100 # 0) \/ y % 400 = 0

DaysIn(mo, y) ==
    IF mo = 2 THEN (IF IsLeap(y) THEN 29 ELSE 28)
    ELSE IF mo \in {4, 6, 9, 11} THEN 30 ELSE 31

\* Days from 1970-01-01 to the civil date.
DaysFromCivil(y, mo, d) ==
    LET yy == IF mo <= 2 THEN y - 1 ELSE y
        era == yy \div 400
        yoe == yy - era * 400
        doy == ((153 * (IF mo > 2 THEN mo - 3 ELSE mo + 9) + 2) \div 5) + d - 1
        doe == yoe * 365 + (yoe \div 4) - (yoe \div 100) + doy
    IN  era * 146097 + doe - 719468

\* The instant a time.Time denotes, in seconds since the Unix epoch.
Unix(t) == DaysFromCivil(t.Y, t.Mo, t.D) * 86400 + t.h * 3600 + t.mi * 60 + t.s - t.off

ValidClock(t) ==
    /\ t.Mo >= 1 /\ t.Mo <= 12
    /\ t.D >= 1 /\ t.D <= DaysIn(t.Mo, t.Y)
    /\ t.h < 24 /\ t.mi < 60 /\ t.s < 60

\* t.Format with date separator ds, date-time separator ts and a literal
\* tail: the fields are t's wall clock in t's own location.
FormatClock(t, ds, ts, tail) ==
    D4(t.Y) \o <<ds>> \o D2(t.Mo) \o <<ds>> \o D2(t.D) \o <<ts>>
    \o D2(t.h) \o <<58>> \o D2(t.mi) \o <<58>> \o D2(t.s) \o tail

\* time.Parse against a layout of the same shape; a layout without a zone
\* yields UTC.  (Hours are taken two digits wide, as every writer here
\* writes them.)
ParseClock(text, ds, ts, tail) ==
    IF /\ Len(text) = 19 + Len(tail)
       /\ AllDigits(text, 0, 4) /\ At(text, 4) = ds
       /\ AllDigits(text, 5, 7) /\ At(text, 7) = ds
       /\ AllDigits(text, 8, 10) /\ At(text, 10) = ts
       /\ AllDigits(text, 11, 13) /\ At(text, 13) = 58
       /\ AllDigits(text, 14, 16) /\ At(text, 16) = 58
       /\ AllDigits(text, 17, 19)
       /\ Slice(text, 19, Len(text)) = tail
    THEN
        LET t == [Y |-> Num(text, 0, 4), Mo |-> Num(text, 5, 7), D |-> Num(text, 8, 10),
                  h |-> Num(text, 11, 13), mi |-> Num(text, 14, 16), s |-> Num(text, 17, 19),
                  ns |-> 0, off |-> 0]
        IN  IF ValidClock(t) THEN <<t>> ELSE <<>>
    ELSE <<>>

\* DateTime.Format("2006-01-02T15:04:05Z"): the Z is a literal of the layout.
FormatPNGTime(t) == FormatClock(t, 45, 84, <<90>>)

\* time.Parse("2006-01-02T15:04:05Z", text), then
\* time.Parse("2006:01:02 15:04:05", text); <<>> when neither parses.
ParsePNGTime(text) ==
    IF ParseClock(text, 45, 84, <<90>>) # <<>> THEN ParseClock(text, 45, 84, <<90>>)
    ELSE ParseClock(text, 58, 32, <<>>)

(***************************************************************************)
(* PNG metadata mode                                                       *)
(***************************************************************************)
KwAuthor == <<65, 117, 116, 104, 111, 114>>
KwCopyright == <<67, 111, 112, 121, 114, 105, 103, 104, 116>>
KwDescription == <<68, 101, 115, 99, 114, 105, 112, 116, 105, 111, 110>>
KwCreationTime == <<67, 114, 101, 97, 116, 105, 111, 110, 32, 84, 105, 109, 101>>
KwLocation == <<76, 111, 99, 97, 116, 105, 111, 110>>
KwCameraMake == <<67, 97, 109, 101, 114, 97, 32, 77, 97, 107, 101>>
KwCameraModel == <<67, 97, 109, 101, 114, 97, 32, 77, 111, 100, 101, 108>>
KwSoftware == <<83, 111, 102, 116, 119, 97, 114, 101>>
KwImageWidth == <<73, 109, 97, 103, 101, 32, 87, 105, 100, 116, 104>>
KwImageHeight == <<73, 109, 97, 103, 101, 32, 72, 101, 105, 103, 104, 116>>

createPNGTextChunks(metadata) ==
    (IF metadata.Artist # <<>> THEN <<createPNGTextChunk(KwAuthor, metadata.Artist)>> ELSE <<>>)
    \o (IF metadata.Copyright # <<>>
        THEN <<createPNGTextChunk(KwCopyright, metadata.Copyright)>> ELSE <<>>)
    \o (IF metadata.Description # <<>>
        THEN <<createPNGTextChunk(KwDescription, metadata.Description)>> ELSE <<>>)
    \o (IF metadata.DateTime # <<>>
        THEN <<createPNGTextChunk(KwCreationTime, FormatPNGTime(metadata.DateTime[1]))>>
        ELSE <<>>)
    \o (IF metadata.Location # <<>>
        THEN <<createPNGTextChunk(KwLocation, metadata.Location)>> ELSE <<>>)
    \o (IF metadata.CameraMake # <<>>
        THEN <<createPNGTextChunk(KwCameraMake, metadata.CameraMake)>> ELSE <<>>)
    \o (IF metadata.CameraModel # <<>>
        THEN <<createPNGTextChunk(KwCameraModel, metadata.CameraModel)>> ELSE <<>>)
    \o (IF metadata.Software # <<>>
        THEN <<createPNGTextChunk(KwSoftware, metadata.Software)>> ELSE <<>>)
    \o (IF metadata.ImageWidth > 0
        THEN <<createPNGTextChunk(KwImageWidth, Itoa(metadata.ImageWidth))>> ELSE <<>>)
    \o (IF metadata.ImageHeight > 0
        THEN <<createPNGTextChunk(KwImageHeight, Itoa(metadata.ImageHeight))>> ELSE <<>>)

\* IsTextChunkType matching the tEXt type alone.
IsTextChunkTypeTEXTOnly(chunkType) == chunkType = TypeTEXT

IsTextChunkType(chunkType) ==
    chunkType = TypeTEXT \/ chunkType = TypeZTXT \/ chunkType = TypeITXT

\* The loop of removeExistingTextChunks; called with len(data) >= 8.
RECURSIVE removeExistingTextChunksFrom(_, _, _)
removeExistingTextChunksFrom(data, pos, result) ==
    IF ~(pos < Len(data) - 8) THEN result
    ELSE IF pos + 4 > Len(data) THEN result
    ELSE IF pos + 8 > Len(data) THEN result
    ELSE
        LET chunkLen == Uint32(data, pos)
            chunkType == Slice(data, pos + 4, pos + 8)
            totalChunkSize == chunkLen + 12
            chunkEnd == pos + totalChunkSize
        IN  IF chunkEnd > Len(data) THEN result \o Slice(data, pos, Len(data))
            ELSE IF IsTextChunkType(chunkType)
                THEN removeExistingTextChunksFrom(data, chunkEnd, result)
            ELSE removeExistingTextChunksFrom(data, chunkEnd,
                                              result \o Slice(data, pos, chunkEnd))

removeExistingTextChunks(data) ==
    removeExistingTextChunksFrom(data, 8, Slice(data, 0, 8))

insertPNGTextChunks(data, chunks) ==
    LET found == findPNGIENDChunk(data)
        iendPos == IF found = -1 THEN Len(data) ELSE found
    IN  Slice(data, 0, iendPos) \o Concat(chunks) \o Slice(data, iendPos, Len(data))

modifyPNGMetadata(data, metadata) ==
    IF Len(data) < 8 \/ Slice(data, 0, 8) # PNGSignature
    THEN [err |-> "InvalidContainer", data |-> <<>>]
    ELSE
        LET cleanData == removeExistingTextChunks(data)
            textChunks == createPNGTextChunks(metadata)
        IN  [err |-> "", data |-> insertPNGTextChunks(cleanData, textChunks)]

\* The index of the first 0 byte of data (0-based), or -1.
RECURSIVE IndexOfZero(_, _)
IndexOfZero(data, i) ==
    IF i >= Len(data) THEN -1
    ELSE IF At(data, i) = 0 THEN i
    ELSE IndexOfZero(data, i + 1)

parsePNGTextChunk(data, metadata) ==
    LET z == IndexOfZero(data, 0)
    IN  IF z = -1 THEN metadata
        ELSE
            LET keyword == ToLower(Slice(data, 0, z))
                text == Slice(data, z + 1, Len(data))
            IN  IF keyword = ToLower(KwAuthor) \/ keyword = <<97, 114, 116, 105, 115, 116>>
                    THEN [metadata EXCEPT !.Artist = text]
                ELSE IF keyword = ToLower(KwCopyright)
                    THEN [metadata EXCEPT !.Copyright = text]
                ELSE IF keyword = ToLower(KwDescription)
                    THEN [metadata EXCEPT !.Description = text]
                ELSE IF keyword = ToLower(KwCreationTime)
                        \/ keyword = <<100, 97, 116, 101, 116, 105, 109, 101>>
                    THEN IF ParsePNGTime(text) # <<>>
                         THEN [metadata EXCEPT !.DateTime = ParsePNGTime(text)]
                         ELSE metadata
                ELSE IF keyword = ToLower(KwLocation)
                    THEN [metadata EXCEPT !.Location = text]
                ELSE IF keyword = ToLower(KwCameraMake) \/ keyword = <<109, 97, 107, 101>>
                    THEN [metadata EXCEPT !.CameraMake = text]
                ELSE IF keyword = ToLower(KwCameraModel) \/ keyword = <<109, 111, 100, 101, 108>>
                    THEN [metadata EXCEPT !.CameraModel = text]
                ELSE IF keyword = ToLower(KwSoftware)
                    THEN [metadata EXCEPT !.Software = text]
                ELSE IF keyword = ToLower(KwImageWidth) \/ keyword = <<119, 105, 100, 116, 104>>
                    THEN IF Atoi(text).ok THEN [metadata EXCEPT !.ImageWidth = Atoi(text).val]
                         ELSE metadata
                ELSE IF keyword = ToLower(KwImageHeight) \/ keyword = <<104, 101, 105, 103, 104, 116>>
                    THEN IF Atoi(text).ok THEN [metadata EXCEPT !.ImageHeight = Atoi(text).val]
                         ELSE metadata
                ELSE metadata

\* The scan loop of getPNGMetadata.
RECURSIVE getPNGMetadataFrom(_, _, _)
getPNGMetadataFrom(data, pos, metadata) ==
    IF ~(pos < Len(data) - 8) THEN metadata
    ELSE IF pos + 4 > Len(data) THEN metadata
    ELSE IF pos + 8 > Len(data) THEN metadata
    ELSE
        LET chunkLen == Uint32(data, pos)
            chunkType == Slice(data, pos + 4, pos + 8)
            at == pos + 8
            parsed ==
                IF chunkType = TypeTEXT /\ at + chunkLen <= Len(data)
                THEN parsePNGTextChunk(Slice(data, at, at + chunkLen), metadata)
                ELSE metadata
        IN  IF chunkType = TypeIEND THEN parsed
            ELSE getPNGMetadataFrom(data, at + chunkLen + 4, parsed)

\* getPNGMetadata on the bytes os.ReadFile returned.
getPNGMetadata(data) ==
    IF Len(data) < 8 \/ Slice(data, 0, 8) # PNGSignature
    THEN [err |-> "InvalidContainer", metadata |-> EmptyMetadata]
    ELSE [err |-> "", metadata |-> getPNGMetadataFrom(data, 8, EmptyMetadata)]

(***************************************************************************)
(* encoding/json on ImageMetadata                                          *)
(*                                                                         *)
(* json.Marshal writes one object, the fields in declaration order, with   *)
(* no white space.  json.Unmarshal is modelled on objects of that shape:   *)
(* members whose values are strings, integers or null, keys matched to     *)
(* fields without regard to case, unknown keys skipped.  Any other text    *)
(* is an error (getJPEGMetadata answers an error with an empty record).    *)
(***************************************************************************)
Fields ==
    << [name |-> "Artist", key |-> <<65, 114, 116, 105, 115, 116>>, kind |-> "string"],
       [name |-> "Copyright", key |-> <<67, 111, 112, 121, 114, 105, 103, 104, 116>>,
        kind |-> "string"],
       [name |-> "Description",
        key |-> <<68, 101, 115, 99, 114, 105, 112, 116, 105, 111, 110>>, kind |-> "string"],
       [name |-> "DateTime", key |-> <<68, 97, 116, 101, 84, 105, 109, 101>>, kind |-> "time"],
       [name |-> "Location", key |-> <<76, 111, 99, 97, 116, 105, 111, 110>>, kind |-> "string"],
       [name |-> "CameraMake", key |-> <<67, 97, 109, 101, 114, 97, 77, 97, 107, 101>>,
        kind |-> "string"],
       [name |-> "CameraModel", key |-> <<67, 97, 109, 101, 114, 97, 77, 111, 100, 101, 108>>,
        kind |-> "string"],
       [name |-> "Software", key |-> <<83, 111, 102, 116, 119, 97, 114, 101>>, kind |-> "string"],
       [name |-> "ImageWidth", key |-> <<73, 109, 97, 103, 101, 87, 105, 100, 116, 104>>,
        kind |-> "int"],
       [name |-> "ImageHeight", key |-> <<73, 109, 97, 103, 101, 72, 101, 105, 103, 104, 116>>,
        kind |-> "int"] >>

HexDigit(n) == IF n < 10 THEN 48 + n ELSE 87 + n

HexValue(b) ==
    IF IsDigit(b) THEN b - 48
    ELSE IF b >= 97 /\ b <= 102 THEN b - 87
    ELSE IF b >= 65 /\ b <= 70 THEN b - 55
    ELSE -1

\* One byte of a string as json.Marshal writes it (HTML escaping on).
jsonEscapeByte(b) ==
    IF b = 34 THEN <<92, 34>>
    ELSE IF b = 92 THEN <<92, 92>>
    ELSE IF b = 10 THEN <<92, 110>>
    ELSE IF b = 13 THEN <<92, 114>>
    ELSE IF b = 9 THEN <<92, 116>>
    ELSE IF b < 32 \/ b \in {60, 62, 38}
        THEN <<92, 117, 48, 48, HexDigit(b \div 16), HexDigit(b % 16)>>
    ELSE <<b>>

RECURSIVE jsonEscape(_, _)
jsonEscape(str, i) ==
    IF i > Len(str) THEN <<>> ELSE jsonEscapeByte(str[i]) \o jsonEscape(str, i + 1)

RECURSIVE TrimZeros(_)
TrimZeros(digits) ==
    IF digits # <<>> /\ digits[Len(digits)] = 48
    THEN TrimZeros(SubSeq(digits, 1, Len(digits) - 1)) ELSE digits

\* time.Time.MarshalJSON: RFC 3339 with the fraction trimmed and the zone
\* as Z or +hh:mm / -hh:mm.
FormatRFC3339Nano(t) ==
    LET frac == TrimZeros([i \in 1..9 |-> 48 + ((t.ns \div (10 ^ (9 - i))) % 10)])
        a == IF t.off < 0 THEN -t.off ELSE t.off
    IN  FormatClock(t, 45, 84, <<>>)
        \o (IF frac = <<>> THEN <<>> ELSE <<46>> \o frac)
        \o (IF t.off = 0 THEN <<90>>
            ELSE <<IF t.off < 0 THEN 45 ELSE 43>> \o D2(a \div 3600) \o <<58>>
                 \o D2((a % 3600) \div 60))

RECURSIVE DigitsEnd(_, _)
DigitsEnd(text, i) ==
    IF i < Len(text) /\ IsDigit(At(text, i)) THEN DigitsEnd(text, i + 1) ELSE i

\* time.Time.UnmarshalJSON: <<t>>, or <<>> on a parse error.
ParseRFC3339(text) ==
    IF Len(text) < 20 THEN <<>>
    ELSE
        LET clock == ParseClock(Slice(text, 0, 19), 45, 84, <<>>)
            hasFrac == At(text, 19) = 46
            fracEnd == IF hasFrac THEN DigitsEnd(text, 20) ELSE 19
            nfrac == IF hasFrac THEN fracEnd - 20 ELSE 0
            zone == Slice(text, fracEnd, Len(text))
            zoneOK ==
                \/ zone = <<90>>
                \/ /\ Len(zone) = 6 /\ zone[1] \in {43, 45} /\ zone[4] = 58
                   /\ AllDigits(zone, 1, 3) /\ AllDigits(zone, 4, 6)
                   /\ Num(zone, 1, 3) < 24 /\ Num(zone, 4, 6) < 60
            off == IF zone = <<90>> THEN 0
                   ELSE (IF zone[1] = 45 THEN -1 ELSE 1)
                        * (Num(zone, 1, 3) * 3600 + Num(zone, 4, 6) * 60)
        IN  IF clock = <<>> \/ (hasFrac /\ (nfrac = 0 \/ nfrac > 9)) \/ ~zoneOK THEN <<>>
            ELSE << [clock[1] EXCEPT
                        !.ns = IF hasFrac THEN Num(text, 20, fracEnd) * (10 ^ (9 - nfrac)) ELSE 0,
                        !.off = off] >>

jsonFieldValue(m, f) ==
    IF f.kind = "string" THEN <<34>> \o jsonEscape(m[f.name], 1) \o <<34>>
    ELSE IF f.kind = "int" THEN Itoa(m[f.name])
    ELSE IF m[f.name] = <<>> THEN <<110, 117, 108, 108>>
    ELSE <<34>> \o FormatRFC3339Nano(m[f.name][1]) \o <<34>>

RECURSIVE jsonMembersOut(_, _)
jsonMembersOut(m, i) ==
    IF i > Len(Fields) THEN <<>>
    ELSE (IF i > 1 THEN <<44>> ELSE <<>>)
         \o <<34>> \o Fields[i].key \o <<34, 58>> \o jsonFieldValue(m, Fields[i])
         \o jsonMembersOut(m, i + 1)

\* json.Marshal(metadata)
jsonMarshal(metadata) == <<123>> \o jsonMembersOut(metadata, 1) \o <<125>>

JsonFail == [ok |-> FALSE, kind |-> "", str |-> <<>>, int |-> 0, next |-> 0]

\* The code point cp in UTF-8 (what a four-hex-digit escape of a JSON string stands for).
Utf8(cp) ==
    IF cp < 128 THEN <<cp>>
    ELSE IF cp < 2048 THEN <<192 + (cp \div 64), 128 + (cp % 64)>>
    ELSE <<224 + (cp \div 4096), 128 + ((cp \div 64) % 64), 128 + (cp % 64)>>

\* A string literal: pos is just after the opening quote.
RECURSIVE jsonStringFrom(_, _, _)
jsonStringFrom(b, pos, acc) ==
    IF Len(acc) < 0 \/ pos >= Len(b) THEN JsonFail
    ELSE
        LET c == At(b, pos)
        IN  IF c = 34 THEN [ok |-> TRUE, kind |-> "string", str |-> acc, int |-> 0,
                            next |-> pos + 1]
            ELSE IF c < 32 THEN JsonFail
            ELSE IF c # 92 THEN jsonStringFrom(b, pos + 1, Append(acc, c))
            ELSE IF pos + 1 >= Len(b) THEN JsonFail
            ELSE
                LET e == At(b, pos + 1)
                IN  IF e \in {34, 92, 47} THEN jsonStringFrom(b, pos + 2, Append(acc, e))
                    ELSE IF e = 110 THEN jsonStringFrom(b, pos + 2, Append(acc, 10))
                    ELSE IF e = 114 THEN jsonStringFrom(b, pos + 2, Append(acc, 13))
                    ELSE IF e = 116 THEN jsonStringFrom(b, pos + 2, Append(acc, 9))
                    ELSE IF e = 98 THEN jsonStringFrom(b, pos + 2, Append(acc, 8))
                    ELSE IF e = 102 THEN jsonStringFrom(b, pos + 2, Append(acc, 12))
                    ELSE IF e = 117 /\ pos + 6 <= Len(b)
                            /\ \A i \in 2..5 : HexValue(At(b, pos + i)) >= 0
                        THEN jsonStringFrom(b, pos + 6,
                                acc \o Utf8(HexValue(At(b, pos + 2)) * 4096
                                            + HexValue(At(b, pos + 3)) * 256
                                            + HexValue(At(b, pos + 4)) * 16
                                            + HexValue(At(b, pos + 5))))
                    ELSE JsonFail

\* A value at pos: a string, an integer without leading zeros, or null.
jsonValue(b, pos) ==
    IF pos >= Len(b) THEN JsonFail
    ELSE IF At(b, pos) = 34 THEN jsonStringFrom(b, pos + 1, <<>>)
    ELSE IF pos + 4 <= Len(b) /\ Slice(b, pos, pos + 4) = <<110, 117, 108, 108>>
        THEN [ok |-> TRUE, kind |-> "null", str |-> <<>>, int |-> 0, next |-> pos + 4]
    ELSE
        LET from == IF At(b, pos) = 45 THEN pos + 1 ELSE pos
            to == DigitsEnd(b, from)
        IN  IF to = from \/ to - from > 9 \/ (to - from > 1 /\ At(b, from) = 48) THEN JsonFail
            ELSE [ok |-> TRUE, kind |-> "int", str |-> <<>>,
                  int |-> IF from = pos THEN Num(b, from, to) ELSE -Num(b, from, to),
                  next |-> to]

\* Store value v under key.  ok is FALSE when the value does not fit the
\* field, which is then left as it was; stop tells that the failure ends
\* the decoding (an error of time.Time's UnmarshalJSON) instead of being
\* saved while the remaining members are still stored (UnmarshalTypeError).
jsonAssign(rec, key, v) ==
    LET hits == {i \in 1..Len(Fields) : ToLower(Fields[i].key) = ToLower(key)}
    IN  IF hits = {} THEN [ok |-> TRUE, stop |-> FALSE, rec |-> rec]
        ELSE
            LET f == Fields[CHOOSE i \in hits : TRUE]
            IN  IF v.kind = "null"
                THEN [ok |-> TRUE, stop |-> FALSE,
                      rec |-> IF f.kind = "time" THEN [rec EXCEPT ![f.name] = <<>>] ELSE rec]
                ELSE IF f.kind = "string"
                THEN IF v.kind = "string"
                     THEN [ok |-> TRUE, stop |-> FALSE, rec |-> [rec EXCEPT ![f.name] = v.str]]
                     ELSE [ok |-> FALSE, stop |-> FALSE, rec |-> rec]
                ELSE IF f.kind = "int"
                THEN IF v.kind = "int"
                     THEN [ok |-> TRUE, stop |-> FALSE, rec |-> [rec EXCEPT ![f.name] = v.int]]
                     ELSE [ok |-> FALSE, stop |-> FALSE, rec |-> rec]
                ELSE IF v.kind = "string" /\ ParseRFC3339(v.str) # <<>>
                     THEN [ok |-> TRUE, stop |-> FALSE,
                           rec |-> [rec EXCEPT ![f.name] = ParseRFC3339(v.str)]]
                     ELSE [ok |-> FALSE, stop |-> TRUE, rec |-> rec]

\* The members of an object from pos on.  mode is "store" while no value
\* has failed, "saved" after a saved type error, "stopped" after a failure
\* that ended the decoding (the rest is only scanned: json.Unmarshal checks
\* the syntax of the whole input before it stores anything, so a syntax
\* error leaves the record untouched).
RECURSIVE jsonMembersIn(_, _, _, _)
jsonMembersIn(b, pos, rec, mode) ==
    IF pos >= Len(b) \/ At(b, pos) # 34 THEN [ok |-> FALSE, rec |-> EmptyMetadata]
    ELSE
        LET k == jsonStringFrom(b, pos + 1, <<>>)
        IN  IF ~k.ok \/ k.next >= Len(b) \/ At(b, k.next) # 58
            THEN [ok |-> FALSE, rec |-> EmptyMetadata]
            ELSE
                LET v == jsonValue(b, k.next + 1)
                    r == IF v.ok THEN jsonAssign(rec, k.str, v)
                         ELSE [ok |-> FALSE, stop |-> FALSE, rec |-> rec]
                    stored == IF mode = "stopped" THEN rec ELSE r.rec
                    then == IF mode = "stopped" \/ r.ok THEN mode
                            ELSE IF r.stop THEN "stopped" ELSE "saved"
                IN  IF ~v.ok \/ v.next >= Len(b)
                    THEN [ok |-> FALSE, rec |-> EmptyMetadata]
                    ELSE IF At(b, v.next) = 44 THEN jsonMembersIn(b, v.next + 1, stored, then)
                    ELSE IF At(b, v.next) = 125 /\ v.next + 1 = Len(b)
                    THEN [ok |-> then = "store", rec |-> stored]
                    ELSE [ok |-> FALSE, rec |-> EmptyMetadata]

\* json.Unmarshal(comment, &metadata): [ok, rec], rec being what metadata
\* holds afterwards.  The text null stores nothing and is no error.
jsonUnmarshal(b) ==
    IF b = <<110, 117, 108, 108>> \/ b = <<123, 125>> THEN [ok |-> TRUE, rec |-> EmptyMetadata]
    ELSE IF Len(b) < 2 \/ b[1] # 123 THEN [ok |-> FALSE, rec |-> EmptyMetadata]
    ELSE jsonMembersIn(b, 1, EmptyMetadata, "store")

(***************************************************************************)
(* JPEG metadata mode                                                      *)
(***************************************************************************)
SegmentLen(data, pos) == At(data, pos) * 256 + At(data, pos + 1)

HasLengthField(marker) == (marker >= 224 /\ marker <= 239) \/ marker = 254

Min(a, b) == IF a < b THEN a ELSE b

\* The loop of removeJPEGComments.
RECURSIVE removeJPEGCommentsFrom(_, _, _)
removeJPEGCommentsFrom(data, pos, result) ==
    IF ~(pos < Len(data) - 4) THEN result
    ELSE IF At(data, pos) # 255 THEN result \o Slice(data, pos, Len(data))
    ELSE
        LET marker == At(data, pos + 1)
            p == pos + 2
        IN  IF marker = 254 THEN
                IF p + 2 > Len(data) THEN result
                ELSE removeJPEGCommentsFrom(data, p + SegmentLen(data, p), result)
            ELSE IF HasLengthField(marker) THEN
                IF p + 2 > Len(data) THEN result \o <<255, marker>>
                ELSE
                    LET endPos == Min(p + SegmentLen(data, p), Len(data))
                    IN  removeJPEGCommentsFrom(data, endPos,
                            result \o <<255, marker>> \o Slice(data, p, endPos))
            ELSE result \o <<255, marker>> \o Slice(data, p, Len(data))

removeJPEGComments(data) ==
    IF Len(data) < 4 THEN data
    ELSE removeJPEGCommentsFrom(data, 2, Slice(data, 0, 2))

\* modifyJPEGMetadata without the removal of the comments already there.
modifyJPEGMetadataKeepComments(data, metadata) ==
    [err |-> "", data |-> insertJPEGComment(data, jsonMarshal(metadata))]

\* json.Marshal does not fail on the records of the model.
modifyJPEGMetadata(data, metadata) ==
    LET cleanData == removeJPEGComments(data)
        metadataJSON == jsonMarshal(metadata)
    IN  [err |-> "", data |-> insertJPEGComment(cleanData, metadataJSON)]

\* The loop of extractJPEGComment; <<>> stands for nil (the function never
\* returns an empty non-nil slice).
RECURSIVE extractJPEGCommentFrom(_, _)
extractJPEGCommentFrom(data, pos) ==
    IF ~(pos < Len(data) - 4) THEN <<>>
    ELSE IF At(data, pos) # 255 THEN <<>>
    ELSE
        LET marker == At(data, pos + 1)
            p == pos + 2
        IN  IF marker = 254 THEN
                IF p + 2 > Len(data) THEN <<>>
                ELSE
                    LET commentLen == SegmentLen(data, p) - 2
                    IN  IF p + 2 + commentLen <= Len(data) /\ commentLen > 0
                        THEN Slice(data, p + 2, p + 2 + commentLen)
                        ELSE <<>>
            ELSE IF HasLengthField(marker) THEN
                IF p + 2 > Len(data) THEN <<>>
                ELSE extractJPEGCommentFrom(data, p + SegmentLen(data, p))
            ELSE <<>>

extractJPEGComment(data) ==
    IF Len(data) < 4 THEN <<>> ELSE extractJPEGCommentFrom(data, 2)

\* getJPEGMetadata returning what json.Unmarshal left in the record when it
\* failed.
getJPEGMetadataKeepPartial(data) ==
    LET comment == extractJPEGComment(data)
    IN  IF comment = <<>> THEN [err |-> "", metadata |-> EmptyMetadata]
        ELSE [err |-> "", metadata |-> jsonUnmarshal(comment).rec]

\* getJPEGMetadata on the bytes os.ReadFile returned: never an error.
getJPEGMetadata(data) ==
    LET comment == extractJPEGComment(data)
    IN  IF comment = <<>> THEN [err |-> "", metadata |-> EmptyMetadata]
        ELSE IF ~jsonUnmarshal(comment).ok THEN [err |-> "", metadata |-> EmptyMetadata]
        ELSE [err |-> "", metadata |-> jsonUnmarshal(comment).rec]

(***************************************************************************)
(* The walkers, run for the positions they index and slice                 *)
(*                                                                         *)
(* Each operator follows its loop and answers "" when the loop ends with   *)
(* every index and slice expression inside the buffer, "OutOfRange" at     *)
(* the first one that is not (a run-time panic), and "NoProgress" when     *)
(* the loop has run more often than the buffer has positions: pos is       *)
(* all the loop's control state, so it is then at a position it has been   *)
(* at before and never ends.  bits is the width of int in the build (Go    *)
(* leaves it at 32 or 64).                                                 *)
(***************************************************************************)
\* data[a:b] (and data[a], with b = a + 1) is inside the buffer.
Within(data, a, b) == 0 <= a /\ a <= b /\ b <= Len(data)

\* int(binary.BigEndian.Uint32(data[pos:pos+4])): a 32-bit int holds every
\* value from 2^31 up as that value less 2^32.  (Values from 2^30 up to
\* 2^31 are kept as 2^30, as in Uint32; the buffers drawn declare none.)
IntOfUint32(data, pos, bits) ==
    IF bits = 32 /\ At(data, pos) >= 128
    THEN (At(data, pos) - 256) * 16777216 + At(data, pos + 1) * 65536
         + At(data, pos + 2) * 256 + At(data, pos + 3)
    ELSE Uint32(data, pos)

RECURSIVE removeJPEGCommentsWalk(_, _, _)
removeJPEGCommentsWalk(data, pos, steps) ==
    IF ~(pos < Len(data) - 4) THEN ""
    ELSE IF steps > Len(data) THEN "NoProgress"
    ELSE IF ~Within(data, pos, pos + 1) THEN "OutOfRange"
    ELSE IF At(data, pos) # 255
        THEN IF Within(data, pos, Len(data)) THEN "" ELSE "OutOfRange"
    ELSE IF ~Within(data, pos + 1, pos + 2) THEN "OutOfRange"
    ELSE
        LET marker == At(data, pos + 1)
            p == pos + 2
        IN  IF HasLengthField(marker) THEN
                IF p + 2 > Len(data) THEN ""
                ELSE IF ~Within(data, p, p + 2) THEN "OutOfRange"
                ELSE IF marker = 254
                    THEN removeJPEGCommentsWalk(data, p + SegmentLen(data, p), steps + 1)
                ELSE
                    LET endPos == Min(p + SegmentLen(data, p), Len(data))
                    IN  IF ~Within(data, p, endPos) THEN "OutOfRange"
                        ELSE removeJPEGCommentsWalk(data, endPos, steps + 1)
            ELSE IF Within(data, p, Len(data)) THEN "" ELSE "OutOfRange"

RECURSIVE extractJPEGCommentWalk(_, _, _)
extractJPEGCommentWalk(data, pos, steps) ==
    IF ~(pos < Len(data) - 4) THEN ""
    ELSE IF steps > Len(data) THEN "NoProgress"
    ELSE IF ~Within(data, pos, pos + 1) THEN "OutOfRange"
    ELSE IF At(data, pos) # 255 THEN ""
    ELSE IF ~Within(data, pos + 1, pos + 2) THEN "OutOfRange"
    ELSE
        LET marker == At(data, pos + 1)
            p == pos + 2
        IN  IF ~HasLengthField(marker) \/ p + 2 > Len(data) THEN ""
            ELSE IF ~Within(data, p, p + 2) THEN "OutOfRange"
            ELSE IF marker = 254 THEN
                LET commentLen == SegmentLen(data, p) - 2
                IN  IF p + 2 + commentLen <= Len(data) /\ commentLen > 0
                           /\ ~Within(data, p + 2, p + 2 + commentLen)
                    THEN "OutOfRange" ELSE ""
            ELSE extractJPEGCommentWalk(data, p + SegmentLen(data, p), steps + 1)

\* [fault, found]: found is what findPNGIENDChunk returns when it returns.
RECURSIVE findPNGIENDChunkWalk(_, _, _, _)
findPNGIENDChunkWalk(data, pos, bits, steps) ==
    IF ~(pos < Len(data) - 8) THEN [fault |-> "", found |-> -1]
    ELSE IF steps > Len(data) THEN [fault |-> "NoProgress", found |-> -1]
    ELSE IF pos + 4 > Len(data) THEN [fault |-> "", found |-> -1]
    ELSE IF ~Within(data, pos, pos + 4) THEN [fault |-> "OutOfRange", found |-> -1]
    ELSE IF pos + 8 > Len(data) THEN [fault |-> "", found |-> -1]
    ELSE IF ~Within(data, pos + 4, pos + 8) THEN [fault |-> "OutOfRange", found |-> -1]
    ELSE IF Slice(data, pos + 4, pos + 8) = TypeIEND THEN [fault |-> "", found |-> pos]
    ELSE findPNGIENDChunkWalk(data, pos + 8 + IntOfUint32(data, pos, bits) + 4, bits,
                              steps + 1)

RECURSIVE removeExistingTextChunksWalk(_, _, _, _)
removeExistingTextChunksWalk(data, pos, bits, steps) ==
    IF ~(pos < Len(data) - 8) THEN ""
    ELSE IF steps > Len(data) THEN "NoProgress"
    ELSE IF pos + 4 > Len(data) THEN ""
    ELSE IF ~Within(data, pos, pos + 4) THEN "OutOfRange"
    ELSE IF pos + 8 > Len(data) THEN ""
    ELSE IF ~Within(data, pos + 4, pos + 8) THEN "OutOfRange"
    ELSE
        LET chunkEnd == pos + IntOfUint32(data, pos, bits) + 12
        IN  IF chunkEnd > Len(data)
                THEN IF Within(data, pos, Len(data)) THEN "" ELSE "OutOfRange"
            ELSE IF IsTextChunkType(Slice(data, pos + 4, pos + 8))
                THEN removeExistingTextChunksWalk(data, chunkEnd, bits, steps + 1)
            ELSE IF ~Within(data, pos, chunkEnd) THEN "OutOfRange"
            ELSE removeExistingTextChunksWalk(data, chunkEnd, bits, steps + 1)

RECURSIVE getPNGMetadataWalk(_, _, _, _)
getPNGMetadataWalk(data, pos, bits, steps) ==
    IF ~(pos < Len(data) - 8) THEN ""
    ELSE IF steps > Len(data) THEN "NoProgress"
    ELSE IF pos + 4 > Len(data) THEN ""
    ELSE IF ~Within(data, pos, pos + 4) THEN "OutOfRange"
    ELSE IF pos + 8 > Len(data) THEN ""
    ELSE IF ~Within(data, pos + 4, pos + 8) THEN "OutOfRange"
    ELSE
        LET chunkLen == IntOfUint32(data, pos, bits)
            chunkType == Slice(data, pos + 4, pos + 8)
            at == pos + 8
        IN  IF chunkType = TypeTEXT /\ at + chunkLen <= Len(data)
                   /\ ~Within(data, at, at + chunkLen)
                THEN "OutOfRange"
            ELSE IF chunkType = TypeIEND THEN ""
            ELSE getPNGMetadataWalk(data, at + chunkLen + 4, bits, steps + 1)

(***************************************************************************)
(* The stored file and what callers pass                                   *)
(***************************************************************************)
\* How many successful modifications one behaviour makes.
MaxCalls == 3

White == <<255, 255, 255, 255>>
Blue == <<0, 0, 255, 255>>
Yellow == <<255, 255, 0, 255>>

\* 3 x 3: eight border pixels around one interior pixel.
Checker ==
    [ok |-> TRUE, w |-> 3, h |-> 3,
     pix |-> <<White, Yellow, Blue, Yellow, Blue, Yellow, Blue, Yellow, Blue>>]

Small == [ok |-> TRUE, w |-> 2, h |-> 1, pix |-> <<Blue, Yellow>>]

\* A PNG as png.Encode writes it.
CanonicalPNG == PngEncode(Checker)

\* A PNG from another writer: truecolour with alpha, a tEXt and a zTXt
\* chunk between IHDR and IDAT.
ForeignPNG ==
    PNGSignature \o pngIHDR(2, 1, 6)
    \o createPNGTextChunk(KwDescription, <<100>>)
    \o pngChunk(TypeZTXT, <<67, 0, 0, 120>>)
    \o pngChunk(TypeIDAT, FlattenPixels(Small.pix, 1, 4))
    \o pngChunk(TypeIEND, <<>>)

\* A PNG cut off before its IEND chunk.
TruncatedPNG == PNGSignature \o pngIHDR(2, 1, 2) \o pngChunk(TypeIDAT, FlattenPixels(Small.pix, 1, 3))

\* A JPEG as jpeg.Encode writes it.
CanonicalJPEG == JpegEncode(Small)

\* A JPEG from another writer: APP0, a comment, then the tables.
ForeignJPEG ==
    <<255, 216>> \o jpegSegment(224, <<74, 70, 73, 70, 0>>)
    \o jpegSegment(254, <<104, 101, 108, 108, 111>>)
    \o Slice(CanonicalJPEG, 2, Len(CanonicalJPEG))

PlainText == <<110, 111, 116, 32, 97, 110, 32, 105, 109, 97, 103, 101>>

\* The files a behaviour may start from: extension and content.
Files ==
    { <<ExtPng, CanonicalPNG>>,
      <<<<46, 80, 78, 71>>, ForeignPNG>>,
      <<ExtPng, TruncatedPNG>>,
      <<ExtPng, PlainText>>,
      <<ExtPng, <<104, 101, 108, 108, 111>>>>,
      <<ExtJpg, CanonicalJPEG>>,
      <<ExtJpeg, ForeignJPEG>>,
      <<ExtJpg, PngEncode(Small)>>,
      <<<<46, 74, 80, 71>>, <<255, 216, 255>>>>,
      <<<<46, 116, 120, 116>>, PlainText>>,
      <<<<>>, CanonicalPNG>> }

UTCNoon == [Y |-> 2024, Mo |-> 6, D |-> 15, h |-> 12, mi |-> 0, s |-> 0, ns |-> 0, off |-> 0]

\* 14:30:00.5 at UTC+8.
LocalTime ==
    [Y |-> 2024, Mo |-> 6, D |-> 15, h |-> 14, mi |-> 30, s |-> 0, ns |-> 500000000,
     off |-> 28800]

\* The records callers pass to ModifyImageMetadata.
MetadataInputs ==
    { [EmptyMetadata EXCEPT !.Artist = <<65, 108>>, !.DateTime = <<UTCNoon>>,
                            !.ImageWidth = 100],
      [EmptyMetadata EXCEPT !.Copyright = <<67, 34, 60>>, !.DateTime = <<LocalTime>>],
      EmptyMetadata }

\* What crypto/rand may deliver: generateRandomBytes(length) filled with
\* one of these byte values.
RandomFills == {0, 171}

generateRandomBytes(length, fill) == Repeat(fill, length)

\* randomBytes[0] and randomBytes[1] of the pixel functions.
PixelDraws == {<<0, 2>>, <<0, 3>>, <<0, 1>>, <<7, 4>>}

(***************************************************************************)
(* The entry points                                                        *)
(***************************************************************************)
\* Format with the default case falling through to the PNG path.
FormatDefaultPNG(e) ==
    IF ToLower(e) = ExtJpg \/ ToLower(e) = ExtJpeg THEN "jpeg" ELSE "png"

\* strings.ToLower(filepath.Ext(imagePath)) and the switch on it.
Format(e) ==
    IF ToLower(e) = ExtJpg \/ ToLower(e) = ExtJpeg THEN "jpeg"
    ELSE IF ToLower(e) = ExtPng THEN "png"
    ELSE "unsupported"

NoResult == [err |-> "UnsupportedFormat", data |-> <<>>]

\* The file is an image of the format its extension names.
ValidImage(e, data) ==
    \/ Format(e) = "png" /\ PngDecode(data).ok
    \/ Format(e) = "jpeg" /\ JpegDecode(data).ok

\* verifyAndWrite without the comparison of the digests.
verifyAndWriteNoGuard(originalData, t) ==
    IF t.err # "" THEN [err |-> t.err, sha1 |-> <<>>, file |-> originalData]
    ELSE [err |-> "", sha1 |-> SHA1(t.data), file |-> t.data]

\* The tail shared by the three Modify functions: give up on a transform
\* error, compare the digests, write the file, return the new digest.
\* t is [err, data] of the transform (NoResult when the extension is not
\* supported).
verifyAndWrite(originalData, t) ==
    IF t.err # "" THEN [err |-> t.err, sha1 |-> <<>>, file |-> originalData]
    ELSE
        LET originalSHA1 == SHA1(originalData)
            newSHA1 == SHA1(t.data)
        IN  IF newSHA1 = originalSHA1
            THEN [err |-> "NoOpFailure", sha1 |-> <<>>, file |-> originalData]
            ELSE [err |-> "", sha1 |-> newSHA1, file |-> t.data]

Call(op, arg, t, r) ==
    /\ file' = r.file
    /\ last' = [op |-> op, arg |-> arg, before |-> file, transform |-> t,
                err |-> r.err, sha1 |-> r.sha1, metadata |-> EmptyMetadata]
    /\ log' = IF r.err = ""
              THEN Append(log, [op |-> op, arg |-> arg, sha1 |-> r.sha1,
                                valid |-> ValidImage(ext, file)])
              ELSE log
    /\ UNCHANGED ext

randomTransform(originalData, e, fill) ==
    IF Format(e) = "jpeg"
    THEN [err |-> "", data |-> insertJPEGComment(originalData, generateRandomBytes(16, fill))]
    ELSE IF Format(e) = "png"
    THEN [err |-> "",
          data |-> insertPNGTextChunk(originalData, KwRandom, generateRandomBytes(32, fill))]
    ELSE NoResult

ModifyImageSHA1 ==
    /\ Len(log) < MaxCalls
    /\ \E fill \in RandomFills :
        LET t == randomTransform(file, ext, fill)
        IN  Call("ModifyImageSHA1", EmptyMetadata, t, verifyAndWrite(file, t))

pixelTransform(originalData, e, draw) ==
    IF Format(e) = "jpeg" THEN modifyJPEGPixel(originalData, draw[1], draw[2])
    ELSE IF Format(e) = "png" THEN modifyPNGPixel(originalData, draw[1], draw[2])
    ELSE NoResult

ModifyImageSHA1ByPixel ==
    /\ Len(log) < MaxCalls
    /\ \E draw \in PixelDraws :
        LET t == pixelTransform(file, ext, draw)
        IN  Call("ModifyImageSHA1ByPixel", EmptyMetadata, t, verifyAndWrite(file, t))

metadataTransform(originalData, e, metadata) ==
    IF Format(e) = "jpeg" THEN modifyJPEGMetadata(originalData, metadata)
    ELSE IF Format(e) = "png" THEN modifyPNGMetadata(originalData, metadata)
    ELSE NoResult

ModifyImageMetadata ==
    /\ Len(log) < MaxCalls
    /\ \E metadata \in MetadataInputs :
        LET t == metadataTransform(file, ext, metadata)
        IN  Call("ModifyImageMetadata", metadata, t, verifyAndWrite(file, t))

GetImageSHA1 ==
    /\ last' = [op |-> "GetImageSHA1", arg |-> EmptyMetadata, before |-> file,
                transform |-> [err |-> "", data |-> <<>>],
                err |-> "", sha1 |-> SHA1(file), metadata |-> EmptyMetadata]
    /\ UNCHANGED <<ext, file, log>>

readMetadata(data, e) ==
    IF Format(e) = "jpeg" THEN getJPEGMetadata(data)
    ELSE IF Format(e) = "png" THEN getPNGMetadata(data)
    ELSE [err |-> "UnsupportedFormat", metadata |-> EmptyMetadata]

GetImageMetadata ==
    /\ last' = [op |-> "GetImageMetadata", arg |-> EmptyMetadata, before |-> file,
                transform |-> [err |-> "", data |-> <<>>],
                err |-> readMetadata(file, ext).err, sha1 |-> <<>>,
                metadata |-> readMetadata(file, ext).metadata]
    /\ UNCHANGED <<ext, file, log>>

Init ==
    /\ \E f \in Files : ext = f[1] /\ file = f[2]
    /\ last = [op |-> "none", arg |-> EmptyMetadata, before |-> <<>>,
               transform |-> [err |-> "", data |-> <<>>],
               err |-> "", sha1 |-> <<>>, metadata |-> EmptyMetadata]
    /\ log = <<>>

Next ==
    \/ ModifyImageSHA1
    \/ ModifyImageSHA1ByPixel
    \/ ModifyImageMetadata
    \/ GetImageSHA1
    \/ GetImageMetadata

Spec == Init /\ [][Next]_vars

(***************************************************************************)
(* Properties                                                              *)
(***************************************************************************)
ModifyOps == {"ModifyImageSHA1", "ModifyImageSHA1ByPixel", "ModifyImageMetadata"}

FieldNames == {Fields[i].name : i \in 1..Len(Fields)}

FieldKind(f) == (CHOOSE i \in 1..Len(Fields) : Fields[i].name = f)

\* A field of a record is set: a non-empty string, a non-nil DateTime, a
\* non-zero width or height.
IsSet(m, f) == IF Fields[FieldKind(f)].kind = "int" THEN m[f] # 0 ELSE m[f] # <<>>

\* Two DateTime values denote the same instant.
SameTime(a, b) ==
    \/ a = <<>> /\ b = <<>>
    \/ a # <<>> /\ b # <<>> /\ Unix(a[1]) = Unix(b[1]) /\ a[1].ns = b[1].ns

SameField(f, a, b) ==
    IF Fields[FieldKind(f)].kind = "time" THEN SameTime(a[f], b[f]) ELSE a[f] = b[f]

\* C1: a Modify call writes the file and returns a digest only when the
\* transform succeeded and the digest of its output differs from the digest
\* of the bytes read; when the digests are equal, or dispatch or the
\* transform failed, it returns an error and the file is as it was.
C1_HashGuard ==
    last.op \in ModifyOps =>
        /\ last.err = "" =>
            /\ last.transform.err = ""
            /\ SHA1(last.transform.data) # SHA1(last.before)
            /\ file = last.transform.data
            /\ last.sha1 = SHA1(file)
        /\ (last.transform.err # "" \/ SHA1(last.transform.data) = SHA1(last.before)) =>
            /\ last.err # ""
            /\ last.sha1 = <<>>
            /\ file = last.before

\* A transform returned the bytes it was given and the guard refused them.
C1_Witness ==
    /\ last.op \in ModifyOps
    /\ last.transform.err = ""
    /\ last.transform.data = last.before
    /\ last.err = "NoOpFailure"
    /\ file = last.before

\* The byte-exact part of the model.  Whether pixel mode changes a JPEG
\* depends on the loss of jpeg.Encode, which the model does not carry, so
\* C2 and C3 are stated over every other mode and format.
ByteExact(op, e) == ~(op = "ModifyImageSHA1ByPixel" /\ Format(e) = "jpeg")

\* C2: on a valid JPEG or PNG, each of the three modes (random chunk, pixel
\* perturbation, metadata rewrite with any record) produces bytes that
\* differ from the input, so the call succeeds and the no-change failure is
\* never reached.
C2_AlwaysChanges ==
    (/\ last.op \in ModifyOps
     /\ ByteExact(last.op, ext)
     /\ ValidImage(ext, last.before)) =>
        /\ last.transform.data # last.before
        /\ last.err # "NoOpFailure"
        /\ last.err = ""

\* C3: the digests returned by N calls of one mode on the same file, each
\* call reading what the previous one wrote, are pairwise distinct.
C3_PairwiseDistinct ==
    (/\ \A i, j \in 1..Len(log) : log[i].op = log[j].op
     /\ \A i \in 1..Len(log) : ByteExact(log[i].op, ext)) =>
        \A i, j \in 1..Len(log) : i < j => log[i].sha1 # log[j].sha1

\* The extension is .jpg, .jpeg or .png, compared without regard to case.
SupportedExt(e) == ToLower(e) \in {ExtJpg, ExtJpeg, ExtPng}

\* C4 as stated: with any other extension every entry point returns the
\* unsupported-format error and leaves the file alone.
C4_EveryEntryPoint ==
    (~SupportedExt(ext) /\ last.op # "none") =>
        last.err = "UnsupportedFormat" /\ file = last.before

\* C4, amended: with any other extension ModifyImageSHA1,
\* ModifyImageSHA1ByPixel, ModifyImageMetadata and GetImageMetadata return
\* the unsupported-format error and leave the file alone; GetImageSHA1 does
\* not look at the extension and returns the digest of the bytes.
C4_Unsupported ==
    ~SupportedExt(ext) =>
        /\ last.op \in ModifyOps \cup {"GetImageMetadata"} =>
            /\ last.err = "UnsupportedFormat"
            /\ file = last.before
            /\ last.sha1 = <<>>
            /\ last.metadata = EmptyMetadata
        /\ last.op = "GetImageSHA1" =>
            last.err = "" /\ last.sha1 = SHA1(file) /\ file = last.before

C4_Witness ==
    /\ ~SupportedExt(ext)
    /\ ext # <<>>
    /\ last.op = "ModifyImageMetadata"
    /\ last.err = "UnsupportedFormat"

HasPNGSignature(data) == Len(data) >= 8 /\ Slice(data, 0, 8) = PNGSignature

\* Pixel mode reports the decoder's "not a PNG file" as a decode failure;
\* that counts as the invalid-container error here.
InvalidContainerError(err) == err \in {"InvalidContainer", "DecodeFailure"}

\* C5: on a .png file without the PNG signature, random mode, pixel mode,
\* metadata mode and GetImageMetadata fail with the invalid-container error
\* and the file is unchanged.
C5_BadPNGRejected ==
    (/\ ToLower(ext) = ExtPng
     /\ ~HasPNGSignature(last.before)
     /\ last.op \in ModifyOps \cup {"GetImageMetadata"}) =>
        InvalidContainerError(last.err) /\ file = last.before

\* C6: on a .jpg/.jpeg file that does not begin with FF D8, random mode and
\* metadata mode fail with the invalid-container error, splice no comment
\* segment and write nothing.
C6_BadJPEGRejected ==
    (/\ ToLower(ext) \in {ExtJpg, ExtJpeg}
     /\ ~(Len(last.before) >= 2 /\ Slice(last.before, 0, 2) = <<255, 216>>)
     /\ last.op \in {"ModifyImageSHA1", "ModifyImageMetadata"}) =>
        /\ last.err = "InvalidContainer"
        /\ last.transform.data = <<>>
        /\ file = last.before

\* C7: GetImageMetadata after a successful ModifyImageMetadata(file, M) on
\* a valid image, M with at least one set field, returns each field set in
\* M with M's value and each field unset in M unset.
C7_RoundTrip ==
    (/\ last.op = "GetImageMetadata"
     /\ log # <<>>
     /\ log[Len(log)].op = "ModifyImageMetadata"
     /\ log[Len(log)].valid
     /\ \E f \in FieldNames : IsSet(log[Len(log)].arg, f)) =>
        /\ last.err = ""
        /\ \A f \in FieldNames : SameField(f, last.metadata, log[Len(log)].arg)

\* C8: after ModifyImageMetadata(file, M1) and then
\* ModifyImageMetadata(file, M2), every field set in M1 and unset in M2
\* still reads back with M1's value.
C8_UnsetKeeps ==
    (/\ last.op = "GetImageMetadata"
     /\ Len(log) >= 2
     /\ log[Len(log)].op = "ModifyImageMetadata"
     /\ log[Len(log) - 1].op = "ModifyImageMetadata"
     /\ log[Len(log) - 1].valid) =>
        \A f \in FieldNames :
            (IsSet(log[Len(log) - 1].arg, f) /\ ~IsSet(log[Len(log)].arg, f)) =>
                SameField(f, last.metadata, log[Len(log) - 1].arg)

\* The coordinates (as indexes into pix) at which two rasters differ.
DiffPixels(a, b) == {i \in 1..Len(a.pix) : a.pix[i] # b.pix[i]}

OnBorder(img, i) ==
    LET x == (i - 1) % img.w
        y == (i - 1) \div img.w
    IN  x = 0 \/ y = 0 \/ x = img.w - 1 \/ y = img.h - 1

\* C9: when pixel mode succeeds on a PNG, the decoded output differs from
\* the decoded input at exactly one coordinate, a border pixel.
C9_OnePixel ==
    (/\ last.op = "ModifyImageSHA1ByPixel"
     /\ ToLower(ext) = ExtPng
     /\ last.err = "") =>
        LET in == PngDecode(last.before)
            out == PngDecode(file)
        IN  /\ out.ok /\ out.w = in.w /\ out.h = in.h
            /\ Cardinality(DiffPixels(in, out)) = 1
            /\ \A i \in DiffPixels(in, out) : OnBorder(in, i)

\* out is in with region spliced in at offset p.
SplicedAt(in, out, p, region) ==
    /\ Len(out) = Len(in) + Len(region)
    /\ Slice(out, 0, p) = Slice(in, 0, p)
    /\ Slice(out, p, p + Len(region)) = region
    /\ Slice(out, p + Len(region), Len(out)) = Slice(in, p, Len(in))

\* The bytes IEND occur somewhere in data.
MentionsIEND(data) == \E i \in 0..(Len(data) - 4) : Slice(data, i, i + 4) = TypeIEND

\* A tEXt chunk as random mode builds it: length 39, type tEXt, the
\* keyword Random, a 0 byte, 32 bytes, and the CRC of type and payload.
IsRandomChunk(region) ==
    /\ Len(region) = 51
    /\ Slice(region, 0, 4) = <<0, 0, 0, 39>>
    /\ Slice(region, 4, 8) = TypeTEXT
    /\ Slice(region, 8, 15) = KwRandom \o <<0>>
    /\ Slice(region, 47, 51) = ChecksumIEEE(Slice(region, 4, 47))

\* A comment segment as random mode builds it: FF FE, length 18, 16 bytes.
IsRandomComment(region) ==
    Len(region) = 20 /\ Slice(region, 0, 4) = <<255, 254, 0, 18>>

\* The file decodes and ends with its IEND chunk.
WellFormedPNG(data) ==
    /\ PngDecode(data).ok
    /\ Slice(data, Len(data) - 12, Len(data)) = pngChunk(TypeIEND, <<>>)

\* C10: random mode inserts one contiguous region and changes nothing
\* else: cutting the region out of the output gives the input back.  JPEG
\* of at least 4 bytes: the comment segment sits at offset 2.  PNG: the
\* tEXt chunk sits right before the IEND chunk of a well-formed file, and
\* at the end of a buffer that holds no IEND.  An input that decodes still
\* decodes, to the same raster.
C10_OneRegion ==
    (last.op = "ModifyImageSHA1" /\ SupportedExt(ext)) =>
        LET in == last.before
            out == last.transform.data
        IN  IF ToLower(ext) = ExtPng THEN
                /\ \E p \in 0..Len(in) :
                      /\ SplicedAt(in, out, p, Slice(out, p, p + 51))
                      /\ IsRandomChunk(Slice(out, p, p + 51))
                /\ WellFormedPNG(in) =>
                      /\ SplicedAt(in, out, Len(in) - 12, Slice(out, Len(in) - 12, Len(in) + 39))
                      /\ WellFormedPNG(out)
                      /\ PngDecode(out) = PngDecode(in)
                /\ ~MentionsIEND(in) => SplicedAt(in, out, Len(in), Slice(out, Len(in), Len(out)))
            ELSE IF Len(in) >= 4 THEN
                /\ SplicedAt(in, out, 2, Slice(out, 2, 22))
                /\ IsRandomComment(Slice(out, 2, 22))
                /\ JpegDecode(in).ok => JpegDecode(out) = JpegDecode(in)
            ELSE out = in

C10_Witness ==
    /\ last.op = "ModifyImageSHA1"
    /\ ToLower(ext) = ExtPng
    /\ PngDecode(last.before).ok
    /\ last.err = ""
    /\ Len(file) = Len(last.before) + 51


(***************************************************************************)
(* The helpers applied on their own                                        *)
(*                                                                         *)
(* A behaviour of Units starts with one drawn input in last.arg and        *)
(* applies the helper that input is for; last.transform.data is what the   *)
(* helper returned.                                                        *)
(***************************************************************************)
\* Rasters of every width and height in 0..MaxSide, and the 100 x 100
\* raster of the test images.
MaxSide == 12

TestSide == 100

\* How many chunks or segments follow the signature or SOI of a drawn buffer.
MaxPieces == 3

\* Every concatenation of at most n of the given pieces.
RECURSIVE Joined(_, _)
Joined(pieces, n) ==
    IF n = 0 THEN {<<>>}
    ELSE LET shorter == Joined(pieces, n - 1)
         IN  shorter \cup {b \o k : b \in shorter, k \in pieces}

\* What may follow a PNG signature: IHDR, the three textual chunks, IDAT,
\* IEND, a tEXt chunk whose declared length (200) runs past the end of the
\* buffer, and three bytes that are no chunk.
ChunkKinds ==
    { pngIHDR(2, 1, 2),
      createPNGTextChunk(KwAuthor, <<65>>),
      pngChunk(TypeZTXT, <<67, 0, 0, 120>>),
      pngChunk(TypeITXT, <<75, 0, 0, 0, 0, 0, 104>>),
      pngChunk(TypeIDAT, <<0, 1, 2>>),
      pngChunk(TypeIEND, <<>>),
      PutUint32(200) \o TypeTEXT \o <<1, 2, 3>>,
      <<1, 2, 3>> }

PNGBuffers(n) == {PNGSignature \o b : b \in Joined(ChunkKinds, n)}

\* What may follow SOI: APP0, a comment, a quantisation table, EOI, a
\* comment whose declared length is 0, a comment and an APP1 segment whose
\* declared length (200) runs past the end of the buffer, and three bytes
\* that are no segment.
SegmentKinds ==
    { jpegSegment(224, <<74, 70>>),
      jpegSegment(254, <<104, 105>>),
      jpegSegment(219, <<0, 95>>),
      <<255, 217>>,
      <<255, 254, 0, 0>>,
      <<255, 254, 0, 200, 1>>,
      <<255, 225, 0, 200, 1, 2>>,
      <<1, 2, 3>> }

JPEGBuffers(n) == {<<255, 216>> \o b : b \in Joined(SegmentKinds, n)}

\* What may follow SOI in a buffer getJPEGMetadata reads: comments holding
\* a serialized record, text that is no JSON ("hi"), an object whose
\* ImageWidth is a string, an object whose DateTime is no timestamp, an
\* object cut short, and nothing; an APP0 segment, a quantisation table
\* and EOI.
CommentKinds ==
    { jpegSegment(254, jsonMarshal(m)) : m \in MetadataInputs }
    \cup { jpegSegment(254, <<104, 105>>),
           jpegSegment(254, <<123, 34, 65, 114, 116, 105, 115, 116, 34, 58, 34, 65, 34, 44, 34, 73, 109, 97, 103, 101, 87, 105, 100, 116, 104, 34, 58, 34, 120, 34, 125>>),
           jpegSegment(254, <<123, 34, 65, 114, 116, 105, 115, 116, 34, 58, 34, 65, 34, 44, 34, 68, 97, 116, 101, 84, 105, 109, 101, 34, 58, 34, 120, 34, 125>>),
           jpegSegment(254, <<123, 34, 65, 114, 116, 105, 115, 116, 34, 58, 34, 65, 34>>),
           jpegSegment(254, <<>>),
           jpegSegment(224, <<74, 70>>),
           jpegSegment(219, <<0, 95>>),
           <<255, 217>> }

\* The capture times a "Creation Time" chunk is written from: whole seconds
\* at UTC, at UTC+8, at UTC-5 late in the evening (the next day in UTC) and
\* at UTC+5:30 on the first minutes of a year.
CaptureTimes ==
    { UTCNoon,
      [Y |-> 2024, Mo |-> 6, D |-> 15, h |-> 14, mi |-> 30, s |-> 0, ns |-> 0, off |-> 28800],
      [Y |-> 2024, Mo |-> 2, D |-> 29, h |-> 23, mi |-> 30, s |-> 59, ns |-> 0, off |-> -18000],
      [Y |-> 2025, Mo |-> 1, D |-> 1, h |-> 0, mi |-> 15, s |-> 0, ns |-> 0, off |-> 19800] }

\* The buffers the walkers are run on are these and every prefix of them:
\* a JPEG of complete segments; segments that declare a length of 0; of
\* 65535; of 1; a PNG of complete chunks; chunks that declare a length of
\* 2^32 - 12, of 2^32 - 16 (a tEXt and an IDAT chunk), of 2^31 and of 200;
\* the first of these behind eight bytes that are no signature; and bytes
\* that are neither format.
WalkedShapes ==
    { <<255, 216>> \o jpegSegment(224, <<74, 70>>) \o jpegSegment(254, <<104, 105>>)
        \o jpegSegment(219, <<0, 95>>) \o <<255, 217>>,
      <<255, 216, 255, 254, 0, 0, 255, 224, 0, 0, 255, 217, 1, 2>>,
      <<255, 216, 255, 225, 255, 255, 1, 2, 3, 255, 254, 255, 255, 1, 2, 3>>,
      <<255, 216, 255, 254, 0, 1, 255, 254, 0, 3, 101, 255, 217>>,
      PNGSignature \o pngIHDR(2, 1, 2) \o createPNGTextChunk(KwAuthor, <<65>>)
        \o pngChunk(TypeIEND, <<>>),
      PNGSignature \o <<255, 255, 255, 244>> \o TypeIDAT \o Repeat(7, 12),
      PNGSignature \o <<255, 255, 255, 240>> \o TypeTEXT \o <<65, 0, 66>> \o Repeat(7, 9),
      PNGSignature \o <<255, 255, 255, 240>> \o TypeIDAT \o Repeat(7, 12),
      PNGSignature \o <<128, 0, 0, 0>> \o TypeTEXT \o Repeat(7, 12),
      PNGSignature \o <<0, 0, 0, 200>> \o TypeTEXT \o Repeat(7, 12),
      Repeat(0, 8) \o <<255, 255, 255, 244>> \o TypeIDAT \o Repeat(7, 12),
      <<1, 2, 3, 4, 5, 6, 7, 8, 9, 10, 11, 12, 13, 14>> }

WalkedBuffers == UNION {{Slice(b, 0, n) : n \in 0..Len(b)} : b \in WalkedShapes}

\* The texts a tEXt chunk is built from: none, one byte, a text holding a
\* zero byte, the 32 hexadecimal digits of random mode, and a text that
\* takes the payload past 255 bytes.
ChunkTexts ==
    { <<>>, <<65>>, <<65, 0, 66>>, Repeat(102, 32), Repeat(97, 300) }

\* The payload of a drawn comment segment: c.size > 0 bytes of one value,
\* or the serialized record when c.size = 0.
CommentOf(c) == IF c.size > 0 THEN Repeat(65, c.size) ELSE jsonMarshal(c.metadata)

\* The inputs of the helpers, each tagged with the helper it is for.
\*   adjustPixel: channel values at and next to both ends of 0..255, and
\*     randomBytes[1] of each residue modulo 5 and the largest byte;
\*   insertJPEGComment: payloads of the 16 random bytes, of sizes around one
\*     byte of length, of 65534 bytes, and the serialized records.
UnitInputs ==
    { [fn |-> "adjustPixel", color |-> <<r, g, b, a>>, rb1 |-> d] :
        r \in {0, 1, 2, 253, 254, 255}, g \in {0, 128, 255}, b \in {1, 254},
        a \in {0, 200, 255}, d \in {0, 1, 2, 3, 4, 255} }
    \cup { [fn |-> "getEdgePixels", width |-> w, height |-> h] : w, h \in 0..MaxSide }
    \cup { [fn |-> "getEdgePixels", width |-> TestSide, height |-> TestSide] }
    \cup { [fn |-> "removeExistingTextChunks", data |-> d] : d \in PNGBuffers(MaxPieces) }
    \cup { [fn |-> "modifyPNGMetadata", data |-> d, metadata |-> m] :
             d \in PNGBuffers(MaxPieces - 1), m \in MetadataInputs }
    \cup { [fn |-> "removeJPEGComments", data |-> d] : d \in JPEGBuffers(MaxPieces) }
    \cup { [fn |-> "modifyJPEGMetadata", data |-> d, metadata |-> m] :
             d \in JPEGBuffers(MaxPieces - 1), m \in MetadataInputs }
    \cup { [fn |-> "insertJPEGComment", data |-> CanonicalJPEG, size |-> n,
            metadata |-> EmptyMetadata] : n \in {1, 16, 253, 254, 255, 256, 65534} }
    \cup { [fn |-> "insertJPEGComment", data |-> CanonicalJPEG, size |-> 0,
            metadata |-> m] : m \in MetadataInputs }
    \cup { [fn |-> "getJPEGMetadata", data |-> <<255, 216>> \o b] :
             b \in Joined(CommentKinds, MaxPieces - 1) }
    \cup { [fn |-> "createPNGTextChunks",
            metadata |-> [EmptyMetadata EXCEPT !.Software = w, !.DateTime = <<t>>]] :
             t \in CaptureTimes, w \in {<<>>, <<71, 111>>} }
    \cup { [fn |-> f, data |-> d] :
             f \in {"walk removeJPEGComments", "walk extractJPEGComment",
                    "walk insertJPEGComment"},
             d \in WalkedBuffers }
    \cup { [fn |-> f, data |-> d, bits |-> w] :
             f \in {"walk findPNGIENDChunk", "walk insertPNGTextChunk"},
             d \in WalkedBuffers, w \in {32, 64} }
    \cup { [fn |-> f, data |-> d, bits |-> w] :
             f \in {"walk removeExistingTextChunks", "walk getPNGMetadata"},
             d \in {b \in WalkedBuffers : Len(b) >= 8 /\ Slice(b, 0, 8) = PNGSignature},
             w \in {32, 64} }
    \cup { [fn |-> "createPNGTextChunk", keyword |-> k, text |-> t] :
             k \in {KwRandom, KwAuthor, KwCreationTime}, t \in ChunkTexts }
    \cup { [fn |-> "insertPNGTextChunk", data |-> d, keyword |-> KwRandom, text |-> t] :
             d \in PNGBuffers(1) \cup {CanonicalPNG}, t \in ChunkTexts }

Drawn(c) ==
    [op |-> "input", arg |-> c, before |-> <<>>,
     transform |-> [err |-> "", data |-> <<>>],
     err |-> "", sha1 |-> <<>>, metadata |-> EmptyMetadata]

Applied(out) ==
    /\ last' = [last EXCEPT !.op = last.arg.fn, !.transform = [err |-> "", data |-> out]]
    /\ UNCHANGED <<ext, file, log>>

\* lines 319-334 of modifyPNGPixel on a one-pixel raster.
ApplyAdjustPixel ==
    /\ last.op = "input"
    /\ last.arg.fn = "adjustPixel"
    /\ Applied(adjustPixel([ok |-> TRUE, w |-> 1, h |-> 1, pix |-> <<last.arg.color>>],
                           0, last.arg.rb1).pix[1])

ApplyGetEdgePixels ==
    /\ last.op = "input"
    /\ last.arg.fn = "getEdgePixels"
    /\ Applied(getEdgePixels(last.arg.width, last.arg.height))

ApplyRemoveExistingTextChunks ==
    /\ last.op = "input"
    /\ last.arg.fn = "removeExistingTextChunks"
    /\ Applied(removeExistingTextChunks(last.arg.data))

ApplyModifyPNGMetadata ==
    /\ last.op = "input"
    /\ last.arg.fn = "modifyPNGMetadata"
    /\ Applied(modifyPNGMetadata(last.arg.data, last.arg.metadata).data)

ApplyRemoveJPEGComments ==
    /\ last.op = "input"
    /\ last.arg.fn = "removeJPEGComments"
    /\ Applied(removeJPEGComments(last.arg.data))

ApplyModifyJPEGMetadata ==
    /\ last.op = "input"
    /\ last.arg.fn = "modifyJPEGMetadata"
    /\ Applied(modifyJPEGMetadata(last.arg.data, last.arg.metadata).data)

ApplyGetJPEGMetadata ==
    /\ last.op = "input"
    /\ last.arg.fn = "getJPEGMetadata"
    /\ Applied(getJPEGMetadata(last.arg.data))

\* What is kept: the chunks, and the record getPNGMetadata reads from a PNG
\* they were inserted into.
ApplyCreatePNGTextChunks ==
    /\ last.op = "input"
    /\ last.arg.fn = "createPNGTextChunks"
    /\ LET chunks == createPNGTextChunks(last.arg.metadata)
       IN  Applied([chunks |-> chunks,
                    read |-> getPNGMetadata(insertPNGTextChunks(CanonicalPNG, chunks)).metadata])

ApplyCreatePNGTextChunk ==
    /\ last.op = "input"
    /\ last.arg.fn = "createPNGTextChunk"
    /\ Applied(createPNGTextChunk(last.arg.keyword, last.arg.text))

ApplyInsertPNGTextChunk ==
    /\ last.op = "input"
    /\ last.arg.fn = "insertPNGTextChunk"
    /\ Applied(insertPNGTextChunk(last.arg.data, last.arg.keyword, last.arg.text))

\* What is kept of the result: its first six bytes (SOI, marker, length
\* field), its length, whether the payload follows the length field, and
\* whether extractJPEGComment returns the payload.
ApplyInsertJPEGComment ==
    /\ last.op = "input"
    /\ last.arg.fn = "insertJPEGComment"
    /\ LET comment == CommentOf(last.arg)
           result == insertJPEGComment(last.arg.data, comment)
       IN  Applied([head |-> Slice(result, 0, 6),
                    length |-> Len(result),
                    payloadFollows |-> Slice(result, 6, 6 + Len(comment)) = comment,
                    extracted |-> extractJPEGComment(result) = comment])

\* The walkers run for their indexing: what is kept is "", "OutOfRange" or
\* "NoProgress".
WalkRemoveJPEGComments ==
    /\ last.op = "input"
    /\ last.arg.fn = "walk removeJPEGComments"
    /\ LET data == last.arg.data
       IN  Applied(IF Len(data) < 4 THEN ""
                   ELSE IF ~Within(data, 0, 2) THEN "OutOfRange"
                   ELSE removeJPEGCommentsWalk(data, 2, 0))

WalkExtractJPEGComment ==
    /\ last.op = "input"
    /\ last.arg.fn = "walk extractJPEGComment"
    /\ LET data == last.arg.data
       IN  Applied(IF Len(data) < 4 THEN "" ELSE extractJPEGCommentWalk(data, 2, 0))

WalkInsertJPEGComment ==
    /\ last.op = "input"
    /\ last.arg.fn = "walk insertJPEGComment"
    /\ LET data == last.arg.data
           insertPos == 2
       IN  Applied(IF Len(data) < 4 THEN ""
                   ELSE IF Within(data, 0, insertPos) /\ Within(data, insertPos, Len(data))
                   THEN "" ELSE "OutOfRange")

WalkFindPNGIENDChunk ==
    /\ last.op = "input"
    /\ last.arg.fn = "walk findPNGIENDChunk"
    /\ Applied(findPNGIENDChunkWalk(last.arg.data, 8, last.arg.bits, 0).fault)

WalkInsertPNGTextChunk ==
    /\ last.op = "input"
    /\ last.arg.fn = "walk insertPNGTextChunk"
    /\ LET data == last.arg.data
           walk == findPNGIENDChunkWalk(data, 8, last.arg.bits, 0)
           iendPos == IF walk.found = -1 THEN Len(data) ELSE walk.found
       IN  Applied(IF walk.fault # "" THEN walk.fault
                   ELSE IF Within(data, 0, iendPos) /\ Within(data, iendPos, Len(data))
                   THEN "" ELSE "OutOfRange")

WalkRemoveExistingTextChunks ==
    /\ last.op = "input"
    /\ last.arg.fn = "walk removeExistingTextChunks"
    /\ LET data == last.arg.data
       IN  Applied(IF ~Within(data, 0, 8) THEN "OutOfRange"
                   ELSE removeExistingTextChunksWalk(data, 8, last.arg.bits, 0))

WalkGetPNGMetadata ==
    /\ last.op = "input"
    /\ last.arg.fn = "walk getPNGMetadata"
    /\ Applied(getPNGMetadataWalk(last.arg.data, 8, last.arg.bits, 0))

InitUnits ==
    /\ ext = <<>>
    /\ file = <<>>
    /\ log = <<>>
    /\ \E c \in UnitInputs : last = Drawn(c)

NextUnits ==
    \/ ApplyAdjustPixel
    \/ ApplyGetEdgePixels
    \/ ApplyRemoveExistingTextChunks
    \/ ApplyModifyPNGMetadata
    \/ ApplyRemoveJPEGComments
    \/ ApplyModifyJPEGMetadata
    \/ ApplyInsertJPEGComment
    \/ ApplyCreatePNGTextChunk
    \/ ApplyInsertPNGTextChunk
    \/ ApplyGetJPEGMetadata
    \/ ApplyCreatePNGTextChunks
    \/ WalkRemoveJPEGComments
    \/ WalkExtractJPEGComment
    \/ WalkInsertJPEGComment
    \/ WalkFindPNGIENDChunk
    \/ WalkInsertPNGTextChunk
    \/ WalkRemoveExistingTextChunks
    \/ WalkGetPNGMetadata

Units == InitUnits /\ [][NextUnits]_vars

\* C11: the selected pixel's new red, green and blue are clamp(old + d, 0,
\* 255) for one d in -2..2 shared by the three channels, alpha is copied;
\* so each colour channel moves by at most 2 and stays within 0..255.
C11_Arithmetic ==
    last.op = "adjustPixel" =>
        LET old == last.arg.color
            new == last.transform.data
            Bound(v) == IF v < 0 THEN 0 ELSE IF v > 255 THEN 255 ELSE v
        IN  /\ \E d \in -2..2 : \A c \in 1..3 : new[c] = Bound(old[c] + d)
            /\ new[4] = old[4]
            /\ \A c \in 1..3 : new[c] \in 0..255 /\ new[c] - old[c] \in -2..2

\* A pixel at the top of the range was pushed up and one channel clamped.
C11_Witness ==
    /\ last.op = "adjustPixel"
    /\ last.arg.color = <<255, 128, 254, 200>>
    /\ last.arg.rb1 % 5 = 4
    /\ last.transform.data = <<255, 130, 255, 200>>


\* The coordinates of the first and last row and the first and last column
\* of a w x h raster.
Border(w, h) ==
    { [X |-> x, Y |-> y] : x \in 0..(w - 1), y \in 0..(h - 1) }
    \ { [X |-> x, Y |-> y] : x \in 1..(w - 2), y \in 1..(h - 2) }

InRaster(c, w, h) == c.X \in 0..(w - 1) /\ c.Y \in 0..(h - 1)

\* C12: for W >= 1 and H >= 1 getEdgePixels(W, H) lists exactly the border
\* coordinates of the raster, each exactly once; for W, H >= 2 that is
\* 2(W+H)-4 entries.
C12_ExactBorder ==
    (last.op = "getEdgePixels" /\ last.arg.width >= 1 /\ last.arg.height >= 1) =>
        LET w == last.arg.width
            h == last.arg.height
            out == last.transform.data
        IN  /\ {out[i] : i \in 1..Len(out)} = Border(w, h)
            /\ \A i, j \in 1..Len(out) : i # j => out[i] # out[j]
            /\ (w >= 2 /\ h >= 2) => Len(out) = 2 * (w + h) - 4

\* C13: getEdgePixels(W, H) is empty whenever W = 0 or H = 0, and never
\* returns a coordinate outside the raster.
C13_EmptyRaster ==
    last.op = "getEdgePixels" =>
        LET w == last.arg.width
            h == last.arg.height
            out == last.transform.data
        IN  /\ (w = 0 \/ h = 0) => out = <<>>
            /\ \A i \in 1..Len(out) : InRaster(out[i], w, h)

\* C14: every index of the border list is the chosen index for some value
\* of randomBytes[0], whatever the size of the raster.
C14_EveryPixelSelectable ==
    (last.op = "getEdgePixels" /\ last.transform.data # <<>>) =>
        LET n == Len(last.transform.data)
        IN  \A i \in 0..(n - 1) : \E rb0 \in 0..255 : pixelIndex(rb0, n) = i


\* A whole chunk lies at pos: its 12 bytes of length, type and CRC and the
\* payload its length field declares are inside the buffer.
CompleteChunkAt(data, pos) ==
    pos + 12 <= Len(data) /\ pos + 12 + Uint32(data, pos) <= Len(data)

\* The three standard textual chunk types.
TextualTypes == {TypeTEXT, TypeZTXT, TypeITXT}

\* The textual chunks among the complete chunks from pos on, in order.
RECURSIVE TextChunksFrom(_, _)
TextChunksFrom(data, pos) ==
    IF ~CompleteChunkAt(data, pos) THEN <<>>
    ELSE LET end == pos + 12 + Uint32(data, pos)
         IN  (IF Slice(data, pos + 4, pos + 8) \in TextualTypes
              THEN <<Slice(data, pos, end)>> ELSE <<>>)
             \o TextChunksFrom(data, end)

\* The buffer from pos on is complete chunks and nothing else.
RECURSIVE AllChunksComplete(_, _)
AllChunksComplete(data, pos) ==
    \/ pos = Len(data)
    \/ CompleteChunkAt(data, pos)
       /\ AllChunksComplete(data, pos + 12 + Uint32(data, pos))

\* The buffer from pos on with the byte ranges of its complete textual
\* chunks deleted; what follows the last complete chunk is kept as it is.
RECURSIVE WithoutTextChunks(_, _)
WithoutTextChunks(data, pos) ==
    IF ~CompleteChunkAt(data, pos) THEN Slice(data, pos, Len(data))
    ELSE LET end == pos + 12 + Uint32(data, pos)
         IN  (IF Slice(data, pos + 4, pos + 8) \in TextualTypes
              THEN <<>> ELSE Slice(data, pos, end))
             \o WithoutTextChunks(data, end)

C16_PNGNoTruncation ==
    last.op = "removeExistingTextChunks" =>
        last.transform.data = PNGSignature \o WithoutTextChunks(last.arg.data, 8)


\* A whole marker segment lies at pos: FF, a marker other than SOI and
\* EOI, a length of at least 2, and the bytes the length declares.
CompleteSegmentAt(data, pos) ==
    /\ pos + 4 <= Len(data)
    /\ At(data, pos) = 255
    /\ At(data, pos + 1) \notin {216, 217}
    /\ At(data, pos + 2) * 256 + At(data, pos + 3) >= 2
    /\ pos + 2 + At(data, pos + 2) * 256 + At(data, pos + 3) <= Len(data)

SegmentEnd(data, pos) == pos + 2 + At(data, pos + 2) * 256 + At(data, pos + 3)

\* The comment segments among the complete segments from pos on, in order.
RECURSIVE CommentsFrom(_, _)
CommentsFrom(data, pos) ==
    IF ~CompleteSegmentAt(data, pos) THEN <<>>
    ELSE (IF At(data, pos + 1) = 254
          THEN <<Slice(data, pos, SegmentEnd(data, pos))>> ELSE <<>>)
         \o CommentsFrom(data, SegmentEnd(data, pos))

\* The buffer from pos on is complete segments, ending there or with EOI.
RECURSIVE SegmentsThroughout(_, _)
SegmentsThroughout(data, pos) ==
    \/ pos = Len(data)
    \/ pos + 2 = Len(data) /\ Slice(data, pos, pos + 2) = <<255, 217>>
    \/ CompleteSegmentAt(data, pos) /\ SegmentsThroughout(data, SegmentEnd(data, pos))

\* Some complete segment from pos on is a quantisation table (DQT, DB).
RECURSIVE HasTableFrom(_, _)
HasTableFrom(data, pos) ==
    /\ CompleteSegmentAt(data, pos)
    /\ (At(data, pos + 1) = 219 \/ HasTableFrom(data, SegmentEnd(data, pos)))

\* C17: after metadata mode on a JPEG the output holds exactly one comment
\* segment, the serialized record right after SOI; every comment segment
\* of the input is gone, wherever it stood in the segment sequence.  Stated
\* for inputs that are complete segments throughout and carry a
\* quantisation table, as every JPEG image does.
C17_SingleComment ==
    (/\ last.op = "modifyJPEGMetadata"
     /\ Len(last.arg.data) >= 4
     /\ SegmentsThroughout(last.arg.data, 2)
     /\ HasTableFrom(last.arg.data, 2)) =>
        LET payload == jsonMarshal(last.arg.metadata)
            segment == <<255, 254, (Len(payload) + 2) \div 256, (Len(payload) + 2) % 256>>
                       \o payload
            out == last.transform.data
        IN  /\ Len(out) >= 2 + Len(segment)
            /\ Slice(out, 2, 2 + Len(segment)) = segment
            /\ CommentsFrom(out, 2) = <<segment>>

\* The positions at which a complete comment segment starts.
CommentStarts(data) ==
    {p \in 0..(Len(data) - 4) : CompleteSegmentAt(data, p) /\ At(data, p + 1) = 254}

\* data from pos on with the segments that start at the positions of
\* starts cut out.
RECURSIVE CutAt(_, _, _)
CutAt(data, pos, starts) ==
    IF pos >= Len(data) THEN <<>>
    ELSE IF pos \in starts THEN CutAt(data, SegmentEnd(data, pos), starts)
    ELSE <<At(data, pos)>> \o CutAt(data, pos + 1, starts)

\* C18: the output of removeJPEGComments is the input with nothing but
\* complete comment segments cut out: every other byte is kept, in order,
\* including an overlong segment, a comment with a declared length below 2
\* and the last bytes of a buffer that ends after a length-prefixed
\* segment.
C18_JPEGNoTruncation ==
    last.op = "removeJPEGComments" =>
        \E starts \in SUBSET CommentStarts(last.arg.data) :
            last.transform.data = CutAt(last.arg.data, 0, starts)

\* The chunk built from keyword and text lies at offset p of out: a 4-byte
\* big-endian count of the payload bytes, "tEXt", the payload keyword 00
\* text, and the CRC-32 of the type and payload bytes.
ChunkLayoutAt(out, p, keyword, text) ==
    LET payload == keyword \o <<0>> \o text
        n == Len(payload)
    IN  /\ Len(out) >= p + n + 12
        /\ Slice(out, p, p + 4) = <<0, 0, n \div 256, n % 256>>
        /\ Slice(out, p + 4, p + 8) = <<116, 69, 88, 116>>
        /\ Slice(out, p + 8, p + 8 + n) = payload
        /\ Slice(out, p + 8 + n, p + 12 + n) = ChecksumIEEE(Slice(out, p + 4, p + 8 + n))

\* C19: the chunk createPNGTextChunk returns, and the chunk
\* insertPNGTextChunk puts into the buffer, is a 4-byte big-endian length
\* equal to the payload byte count, the type "tEXt", the payload keyword 00
\* text, and a 4-byte big-endian CRC-32 over type and payload (not over
\* the length field); the chunk is 12 bytes longer than its payload.
C19_ChunkLayout ==
    /\ last.op = "createPNGTextChunk" =>
           LET out == last.transform.data
           IN  /\ Len(out) = Len(last.arg.keyword) + 1 + Len(last.arg.text) + 12
               /\ ChunkLayoutAt(out, 0, last.arg.keyword, last.arg.text)
    /\ last.op = "insertPNGTextChunk" =>
           LET in == last.arg.data
               out == last.transform.data
               size == Len(last.arg.keyword) + 1 + Len(last.arg.text) + 12
           IN  /\ Len(out) = Len(in) + size
               /\ \E p \in 0..Len(in) :
                      /\ Slice(out, 0, p) = Slice(in, 0, p)
                      /\ Slice(out, p + size, Len(out)) = Slice(in, p, Len(in))
                      /\ ChunkLayoutAt(out, p, last.arg.keyword, last.arg.text)

\* createPNGTextChunk("Author", "A") is the 20 bytes 00 00 00 08 "tEXt"
\* "Author" 00 "A" AB 77 F9 E5.
C19_Witness ==
    /\ last.op = "createPNGTextChunk"
    /\ last.arg.keyword = KwAuthor
    /\ last.arg.text = <<65>>
    /\ last.transform.data =
           <<0, 0, 0, 8, 116, 69, 88, 116, 65, 117, 116, 104, 111, 114, 0, 65,
             171, 119, 249, 229>>

\* C20: the segment insertJPEGComment inserts is FF FE, a 2-byte big-endian
\* length equal to the payload length + 2, and the payload, so that
\* extractJPEGComment on the result returns the payload.
C20_CommentLength ==
    last.op = "insertJPEGComment" =>
        LET size == Len(CommentOf(last.arg))
            out == last.transform.data
        IN  /\ Slice(out.head, 2, 4) = <<255, 254>>
            /\ At(out.head, 4) * 256 + At(out.head, 5) = size + 2
            /\ out.length = Len(last.arg.data) + 4 + size
            /\ out.payloadFollows
            /\ out.extracted

\* Every complete segment from pos up to the first comment is APP0..APP15.
RECURSIVE OnlyAPPBeforeComment(_, _)
OnlyAPPBeforeComment(data, pos) ==
    /\ CompleteSegmentAt(data, pos)
    /\ \/ At(data, pos + 1) = 254
       \/ /\ At(data, pos + 1) \in 224..239
          /\ OnlyAPPBeforeComment(data, SegmentEnd(data, pos))

\* C21: on a buffer of complete segments getJPEGMetadata returns no error
\* and a record taken from the first comment segment only: all-unset when
\* there is no comment segment or when that comment's content does not
\* parse as the serialized record (never a partially filled record), and
\* the parsed record when the comment is reached through APPn segments and
\* parses.
C21_FirstCommentOnly ==
    (last.op = "getJPEGMetadata" /\ SegmentsThroughout(last.arg.data, 2)) =>
        LET comments == CommentsFrom(last.arg.data, 2)
            got == last.transform.data
            parsed == jsonUnmarshal(Slice(comments[1], 4, Len(comments[1])))
        IN  /\ got.err = ""
            /\ comments = <<>> => got.metadata = EmptyMetadata
            /\ (comments # <<>> /\ ~parsed.ok) => got.metadata = EmptyMetadata
            /\ (comments # <<>> /\ parsed.ok) =>
                  /\ got.metadata \in {EmptyMetadata, parsed.rec}
                  /\ OnlyAPPBeforeComment(last.arg.data, 2) => got.metadata = parsed.rec

\* The first comment holds {"Artist":"A","ImageWidth":"x"}, a later one a
\* serialized record with a Copyright: the record returned is all-unset,
\* although json.Unmarshal had stored the Artist before it failed.
C21_Witness ==
    /\ last.op = "getJPEGMetadata"
    /\ Len(CommentsFrom(last.arg.data, 2)) = 2
    /\ LET first == CommentsFrom(last.arg.data, 2)[1]
           second == CommentsFrom(last.arg.data, 2)[2]
       IN  /\ ~jsonUnmarshal(Slice(first, 4, Len(first))).ok
           /\ jsonUnmarshal(Slice(first, 4, Len(first))).rec.Artist = <<65>>
           /\ jsonUnmarshal(Slice(second, 4, Len(second))).ok
           /\ jsonUnmarshal(Slice(second, 4, Len(second))).rec.Copyright # <<>>
    /\ last.transform.data = [err |-> "", metadata |-> EmptyMetadata]

\* The instant the text YYYY-MM-DDThh:mm:ssZ denotes as a UTC timestamp, in
\* seconds since the Unix epoch.
InstantOfUTCText(text) ==
    LET v(a, b) == Num(text, a, b)
        y == IF v(5, 7) <= 2 THEN v(0, 4) - 1 ELSE v(0, 4)
        m == IF v(5, 7) <= 2 THEN v(5, 7) + 9 ELSE v(5, 7) - 3
        days == 365 * y + (y \div 4) - (y \div 100) + (y \div 400)
                + ((153 * m + 2) \div 5) + v(8, 10) - 1 - 719468
    IN  days * 86400 + v(11, 13) * 3600 + v(14, 16) * 60 + v(17, 19)

\* C22: the text of the "Creation Time" chunk is a UTC timestamp of the
\* same instant (to the second) as the DateTime it was written from,
\* whatever the zone of that value, and decoding the chunk yields that
\* instant.
C22_UTCTimestamp ==
    last.op = "createPNGTextChunks" =>
        LET t == last.arg.metadata.DateTime[1]
            instant == DaysFromCivil(t.Y, t.Mo, t.D) * 86400 + t.h * 3600 + t.mi * 60
                       + t.s - t.off
            chunk == last.transform.data.chunks[1]
            text == Slice(chunk, 8 + Len(KwCreationTime) + 1, Len(chunk) - 4)
            read == last.transform.data.read.DateTime
        IN  /\ Slice(chunk, 8, 8 + Len(KwCreationTime)) = KwCreationTime
            /\ Len(text) = 20 /\ At(text, 19) = 90
            /\ InstantOfUTCText(text) = instant
            /\ read # <<>>
            /\ Unix(read[1]) = instant

\* C23: on a valid JPEG or PNG file on which ModifyImageMetadata succeeded,
\* a later successful random-mode call (nothing but random-mode calls
\* having followed the metadata call) leaves the record GetImageMetadata
\* returns as it was before the call.
C23_RandomKeepsMetadata ==
    (/\ last.op = "ModifyImageSHA1"
     /\ last.err = ""
     /\ \E i \in 1..(Len(log) - 1) :
           /\ log[i].op = "ModifyImageMetadata"
           /\ log[i].valid
           /\ \A j \in (i + 1)..Len(log) : log[j].op = "ModifyImageSHA1") =>
        readMetadata(file, ext) = readMetadata(last.before, ext)

\* The call before the last one succeeded, was ModifyImageMetadata on a
\* valid image, and had the record of the last call, itself a
\* ModifyImageMetadata: last.before is then what that call wrote.
SecondWithSameRecord ==
    /\ last.op = "ModifyImageMetadata"
    /\ LET prev == IF last.err = "" THEN Len(log) - 1 ELSE Len(log)
       IN  /\ prev >= 1
           /\ log[prev].op = "ModifyImageMetadata"
           /\ log[prev].valid
           /\ log[prev].arg = last.arg

C25_WithinBuffer ==
    last.op \in {"walk removeJPEGComments", "walk extractJPEGComment",
                 "walk insertJPEGComment", "walk findPNGIENDChunk",
                 "walk insertPNGTextChunk", "walk removeExistingTextChunks",
                 "walk getPNGMetadata"} =>
        last.transform.data = ""

====
